---- MODULE Spec2Model ----
(***************************************************************************)
(* Model of the conversation mining scripts: the message extractors over   *)
(* a conversation's node mapping, the flattening of content fragments, the *)
(* chunked run of ChunkProcessor, and the concept pass of                  *)
(* DeepConversationAnalyzer.                                               *)
(*                                                                         *)
(* Texts are sequences of symbols.  A symbol is one character ("x", "X",   *)
(* " ") or an atom: one symbol that stands for a substring matched by one  *)
(* of the program's search expressions (KeywordsOf, TermOf, ExprOf say     *)
(* which).  len() counts symbols.                                          *)
(*                                                                         *)
(* A JSON value that may be missing is encoded by a tag: "absent" (the key *)
(* is not in the dict), "null" (the key maps to None) or the tag of its    *)
(* type ("dict", "list").                                                  *)
(***************************************************************************)
EXTENDS Integers, Sequences, FiniteSets, TLC

VARIABLES
    parts,          \* SpecParts: the list handed to safe_extract_content
    flattened,      \* SpecParts: [by, text], the last call and what it returned
    conv,           \* SpecDecode: the conversation record handed to an extractor
    extractor,      \* SpecDecode: the extractor called last ("none" before)
    result,         \* SpecDecode: [raised, out] of that call
    conversations,  \* SpecChunks: the corpus process_all_chunks loaded
    chunk_size,     \* SpecChunks: self.chunk_size
    chunks,         \* SpecChunks: the list of chunks of process_all_chunks
    idx,            \* SpecChunks: the number of chunks the loop has taken
    cpc,            \* SpecChunks: where process_all_chunks stands
    global_patterns,\* SpecChunks: self.global_patterns, category -> list
    unique_phrases, \* SpecChunks: self.unique_phrases, term -> count
    calls,          \* SpecChunks (history): the arguments of each process_chunk call
    processed,      \* SpecChunks (history): corpus positions processed to the end
    consolidated,   \* SpecChunks (history): the number of consolidate_findings runs
    report,         \* SpecChunks: the sections consolidate_findings wrote
    da_conversations, \* SpecConcepts: self.conversations of DeepConversationAnalyzer
    cidx,           \* SpecConcepts: conversations identify_unique_concepts has taken
    dpc,            \* SpecConcepts: where identify_unique_concepts stands
    concept_scores, \* SpecConcepts: concept_scores, in insertion order
    ranking,        \* SpecConcepts: the concepts as printed, in order
    arg,            \* a pass called on its own: the input it is handed
    fn,             \* the pass called ("none" before the call)
    ret,            \* what the pass returned or left in the fields of self
    all_mike_messages, \* SpecFinal: self.all_mike_messages of FinalAnalyzer
    thinking_patterns, \* SpecFinal: self.thinking_patterns, in insertion order
    passes          \* SpecFinal (history): the passes run so far, in order

partsVars == <<parts, flattened>>
decodeVars == <<conv, extractor, result>>
chunkVars == <<conversations, chunk_size, chunks, idx, cpc, global_patterns,
               unique_phrases, calls, processed, consolidated, report>>
conceptVars == <<da_conversations, cidx, dpc, concept_scores, ranking>>
callVars == <<arg, fn, ret>>
finalVars == <<all_mike_messages, thinking_patterns, passes>>
vars == <<partsVars, decodeVars, chunkVars, conceptVars, callVars, finalVars>>

----------------------------------------------------------------------------
(* Bounds of the model *)

MaxParts == 3
MaxNodes == 2
MaxConvs == 3
MaxChunkSize == 3
ScenarioConvs == 120
MaxConceptConvs == 2
MaxThemeConvs == 3
MaxFinalConvs == 2
MaxPasses == 3
MaxFlowMessages == 4
MaxTextLen == 6
MaxProblemLen == 3
MaxDays == 368
MaxBucketNodes == 2
MaxBucketConvs == 2

\* the first day of the create_time inputs, in days since the epoch: 2023-12-31
FirstDay == 19722

----------------------------------------------------------------------------
(* Texts *)

Rep(c, n) == [i \in 1..n |-> c]

Take(s, n) == SubSeq(s, 1, IF Len(s) < n THEN Len(s) ELSE n)

\* sep.join(list)
RECURSIVE Join(_, _)
Join(list, sep) ==
    IF list = <<>> THEN <<>>
    ELSE IF Len(list) = 1 THEN list[1]
    ELSE list[1] \o sep \o Join(Tail(list), sep)

\* the concatenation of a list of lists (successive list.append / extend)
RECURSIVE Concat(_)
Concat(lists) ==
    IF lists = <<>> THEN <<>> ELSE lists[1] \o Concat(Tail(lists))

LowerSym(c) ==
    CASE c = "X" -> "x"
      [] c = "FEEDBACK LOOP" -> "feedback loop"
      [] c = "Upstream Logic" -> "upstream logic"
      [] c = "Need To" -> "need to"
      [] c = "I" -> "i"
      [] c = "If" -> "if"
      [] c = "When" -> "when"
      [] c = "Decided To" -> "decided to"
      [] c = "CODE" -> "code"
      [] OTHER -> c

Ellipsis == <<".", ".", ".">>

\* str.lower()
Lower(s) == [i \in 1..Len(s) |-> LowerSym(s[i])]

RECURSIVE LStrip(_)
LStrip(s) == IF s # <<>> /\ s[1] = " " THEN LStrip(Tail(s)) ELSE s

RECURSIVE RStrip(_)
RStrip(s) ==
    IF s # <<>> /\ s[Len(s)] = " " THEN RStrip(SubSeq(s, 1, Len(s) - 1)) ELSE s

\* str.strip()
Strip(s) == RStrip(LStrip(s))

----------------------------------------------------------------------------
(* Content fragments: a plain string, a dict with optional text and        *)
(* content fields (an empty field stands for a missing or empty one: both  *)
(* are falsy in part.get), or a value of another type (None, a number).    *)

StrPart(s) == [t |-> "str", text |-> s, content |-> <<>>]
DictPart(text, content) == [t |-> "dict", text |-> text, content |-> content]
OtherPart == [t |-> "other", text |-> <<>>, content |-> <<>>]

\* what the loop body of ChunkProcessor.safe_extract_content appends
ChunkPartTexts(part) ==
    IF part.t = "str" THEN <<part.text>>
    ELSE IF part.t = "dict" /\ part.text # <<>> THEN <<part.text>>
    ELSE <<>>

\* what the loop body of DeepConversationAnalyzer.safe_extract_content appends
DeepPartTexts(part) ==
    IF part.t = "str" THEN <<part.text>>
    ELSE IF part.t = "dict" THEN
        IF part.text # <<>> THEN <<part.text>>
        ELSE IF part.content # <<>> THEN <<part.content>>
        ELSE <<>>
    ELSE <<>>

ChunkSafeExtractContent(ps) ==
    Join(Concat([i \in 1..Len(ps) |-> ChunkPartTexts(ps[i])]), <<" ">>)

DeepSafeExtractContent(ps) ==
    Join(Concat([i \in 1..Len(ps) |-> DeepPartTexts(ps[i])]), <<" ">>)

----------------------------------------------------------------------------
(* Nodes of a conversation's mapping.  The mapping is a dict in insertion  *)
(* order: a sequence of nodes, a node's id being its position.  A node is  *)
(* None (null) or a dict; message, author, content and parts carry the     *)
(* tags described above; role is "absent" or the role string; ctime is the *)
(* message's create_time (NoTime: the key is missing, NoneTime: None);     *)
(* parent is the id of the parent node, 0 for None or a missing key.       *)

NoTime == -1
NoneTime == 0

\* msg.get('create_time'): None when the key is missing
MsgCreateTime(node) == IF node.ctime = NoTime THEN NoneTime ELSE node.ctime

Node(message, author, role, content, partsTag, plist, ctime, parent) ==
    [null |-> FALSE, message |-> message, author |-> author, role |-> role,
     content |-> content, parts |-> partsTag, plist |-> plist,
     ctime |-> ctime, parent |-> parent]

NullNode ==
    [null |-> TRUE, message |-> "absent", author |-> "absent", role |-> "absent",
     content |-> "absent", parts |-> "absent", plist |-> <<>>,
     ctime |-> NoTime, parent |-> 0]

\* a node with a well-formed message
GoodNode(role, plist, ctime, parent) ==
    Node("dict", "dict", role, "dict", "list", plist, ctime, parent)

\* `if node` / `if not node: continue`
NodeTruthy(node) == ~node.null

\* node.get('message') is truthy
HasMessage(node) == NodeTruthy(node) /\ node.message = "dict"

\* the outcome of one pass through a loop body
Skip == [kind |-> "skip"]
Raise == [kind |-> "raise"]
Emit(m) == [kind |-> "emit", msg |-> m]

\* what a function whose loop took these steps returns: nothing when a step
\* raised, for the exception leaves the function; its local list otherwise
LoopResult(steps) ==
    IF \E i \in 1..Len(steps) : steps[i].kind = "raise"
    THEN [raised |-> TRUE, out |-> <<>>]
    ELSE LET em == SelectSeq(steps, LAMBDA st : st.kind = "emit")
         IN  [raised |-> FALSE, out |-> [i \in 1..Len(em) |-> em[i].msg]]

\* the same for a loop that appends to a field of self: what was appended
\* before the exception stays
RECURSIVE EmitsBeforeRaise(_)
EmitsBeforeRaise(steps) ==
    IF steps = <<>> \/ steps[1].kind = "raise" THEN <<>>
    ELSE (IF steps[1].kind = "emit" THEN <<steps[1].msg>> ELSE <<>>)
         \o EmitsBeforeRaise(Tail(steps))

FieldLoopResult(steps) ==
    [raised |-> \E i \in 1..Len(steps) : steps[i].kind = "raise",
     out |-> EmitsBeforeRaise(steps)]

\* the text loop of the extractors that read only str parts and text fields
TextOnlyJoin(plist) == ChunkSafeExtractContent(plist)

MinLenDeep == 50
MinLenChunk == 50
MinLenReal == 20
MinLenFinal == 20

\* extract_messages with the tests on the message and on content_text left
\* out: a node without a message yields a message with defaulted fields
ExtractMessagesStepNoTests(id, node) ==
    IF node.null THEN Raise
    ELSE Emit([role |-> IF node.role = "absent" THEN "unknown" ELSE node.role,
               content |-> DeepSafeExtractContent(node.plist),
               timestamp |-> MsgCreateTime(node),
               node_id |-> id])

\* ConversationAnalyzer.extract_messages, the body of its loop over mapping
ExtractMessagesStep(id, node) ==
    IF node.null THEN Raise                     \* None.get
    ELSE IF node.message # "dict" THEN Skip
    ELSE IF ~(node.content = "dict" /\ node.parts = "list" /\ node.plist # <<>>)
    THEN Skip
    ELSE LET content_text == Concat([i \in 1..Len(node.plist) |->
                                        DeepPartTexts(node.plist[i])])
         IN  IF content_text = <<>> THEN Skip
             ELSE IF node.author # "dict" \/ node.role = "absent"
             THEN Raise                         \* msg['author']['role']
             ELSE Emit([role |-> node.role,
                        content |-> Join(content_text, <<" ">>),
                        timestamp |-> MsgCreateTime(node),
                        node_id |-> id])

ExtractMessages(c) ==
    LoopResult([i \in 1..Len(c.mapping) |-> ExtractMessagesStep(i, c.mapping[i])])

\* the part of the user-message extractors' loop body from the role test on
\* (ChunkProcessor.extract_user_content, which returns the text alone; the
\* node id is kept here to tell where an element came from)
UserContentStep(id, node, flat, minlen) ==
    IF ~NodeTruthy(node) THEN Skip
    ELSE IF ~HasMessage(node) THEN Skip
    ELSE IF ~(node.author = "dict" /\ node.role = "user") THEN Skip
    ELSE IF node.content = "null" THEN Raise    \* None.get('parts', [])
    ELSE IF ~(node.content = "dict" /\ node.parts = "list" /\ node.plist # <<>>)
    THEN Skip
    ELSE IF flat # <<>> /\ Len(flat) > minlen
    THEN Emit([content |-> flat, timestamp |-> MsgCreateTime(node), node_id |-> id])
    ELSE Skip

ExtractUserContentStep(id, node) ==
    UserContentStep(id, node, ChunkSafeExtractContent(node.plist), MinLenChunk)

ExtractUserContent(c) ==
    LoopResult([i \in 1..Len(c.mapping) |-> ExtractUserContentStep(i, c.mapping[i])])

\* DeepConversationAnalyzer.extract_user_messages, the body of its loop
ExtractUserMessagesStep(id, node) ==
    UserContentStep(id, node, DeepSafeExtractContent(node.plist), MinLenDeep)

ExtractUserMessages(c) ==
    LoopResult([i \in 1..Len(c.mapping) |-> ExtractUserMessagesStep(i, c.mapping[i])])

\* RealAnalyzer.extract_mike_messages, the body of its loop
ExtractMikeMessagesStep(id, node) ==
    IF ~HasMessage(node) THEN Skip
    ELSE IF node.author = "null" THEN Raise     \* None.get('role')
    ELSE IF node.role # "user" THEN Skip
    ELSE IF node.content = "null" THEN Raise    \* None.get('parts', [])
    ELSE IF node.content = "dict" /\ node.parts = "null"
    THEN Raise                                  \* for part in None
    ELSE LET full_text == TextOnlyJoin(IF node.content = "dict" /\ node.parts = "list"
                                       THEN node.plist ELSE <<>>)
         IN  IF full_text # <<>> /\ Len(full_text) > MinLenReal
             THEN Emit([content |-> full_text, timestamp |-> MsgCreateTime(node),
                        parent |-> node.parent, node_id |-> id])
             ELSE Skip

ExtractMikeMessages(c) ==
    LoopResult([i \in 1..Len(c.mapping) |-> ExtractMikeMessagesStep(i, c.mapping[i])])

\* FinalAnalyzer.load_and_extract_all, the body of its loop over a mapping
LoadAndExtractStep(id, node, title, create_time) ==
    IF ~NodeTruthy(node) THEN Skip
    ELSE IF ~HasMessage(node) THEN Skip
    ELSE IF node.author = "null" THEN Raise     \* None.get('role')
    ELSE IF node.role # "user" THEN Skip
    ELSE IF node.content = "null" THEN Raise
    ELSE IF node.content = "dict" /\ node.parts = "null" THEN Raise
    ELSE LET full_text == Strip(TextOnlyJoin(
                              IF node.content = "dict" /\ node.parts = "list"
                              THEN node.plist ELSE <<>>))
         IN  IF full_text # <<>> /\ Len(full_text) > MinLenFinal
             THEN Emit([content |-> full_text, title |-> title,
                        timestamp |-> IF node.ctime = NoTime THEN create_time
                                      ELSE node.ctime,
                        length |-> Len(full_text), node_id |-> id])
             ELSE Skip

\* load_and_extract_all over a corpus of one conversation
LoadAndExtractAll(c) ==
    FieldLoopResult([i \in 1..Len(c.mapping) |->
                        LoadAndExtractStep(i, c.mapping[i], c.title, c.create_time)])

\* Python values of different types never compare equal: a mapping key is a
\* str, an element of a nodes_by_parent list is a tuple (node_id, node)
PyKey(id) == [t |-> "str", v |-> id]
PyPair(id, node) == [t |-> "tuple", v |-> <<id, node>>]
PyEq(a, b) == a.t = b.t /\ a.v = b.v
PyIn(a, list) == \E k \in 1..Len(list) : PyEq(a, list[k])

\* DeepDiveAnalyzer.extract_full_conversation, first pass:
\* nodes_by_parent[parent], the (node_id, node) pairs filed under parent
NodesByParent(mapping, parent) ==
    LET ids == SelectSeq([i \in 1..Len(mapping) |-> i],
                         LAMBDA i : HasMessage(mapping[i])
                                    /\ mapping[i].parent = parent)
    IN  [k \in 1..Len(ids) |-> PyPair(ids[k], mapping[ids[k]])]

\* the body of traverse's loop, up to the recursive call
TraverseStep(id, node, depth) ==
    IF node.author = "null" THEN Raise          \* None.get('role', 'unknown')
    ELSE IF node.content = "null" THEN Raise
    ELSE IF node.content = "dict" /\ node.parts = "null" THEN Raise
    ELSE LET full_text == TextOnlyJoin(IF node.content = "dict" /\ node.parts = "list"
                                       THEN node.plist ELSE <<>>)
         IN  IF full_text # <<>>
             THEN Emit([role |-> IF node.author = "dict" /\ node.role # "absent"
                                 THEN node.role ELSE "unknown",
                        content |-> full_text, depth |-> depth,
                        timestamp |-> MsgCreateTime(node), node_id |-> id])
             ELSE Skip

\* traverse(node_id, depth): the steps it takes, in order
RECURSIVE Traverse(_, _, _)
Traverse(mapping, node_id, depth) ==
    LET children == NodesByParent(mapping, node_id)
    IN  Concat([k \in 1..Len(children) |->
                   <<TraverseStep(children[k].v[1], children[k].v[2], depth)>>
                   \o Traverse(mapping, children[k].v[1], depth + 1)])

\* root_nodes = [n for n in mapping.keys() if n in nodes_by_parent[None]]
RootNodes(mapping) ==
    SelectSeq([i \in 1..Len(mapping) |-> i],
              LAMBDA n : PyIn(PyKey(n), NodesByParent(mapping, 0)))

ExtractFullConversation(c) ==
    LET roots == RootNodes(c.mapping)
    IN  LoopResult(Concat([k \in 1..Len(roots) |-> Traverse(c.mapping, roots[k], 0)]))

----------------------------------------------------------------------------
(* ChunkProcessor: process_all_chunks, process_chunk, consolidate_findings *)

Min(a, b) == IF a < b THEN a ELSE b

\* list(range(0, n, step))
Range0(n, step) == SelectSeq([i \in 1..n |-> i - 1], LAMBDA i : i % step = 0)

\* list[lo:hi]
Slice(list, lo, hi) == SubSeq(list, lo + 1, Min(hi, Len(list)))

\* the chunk list with the last, partial chunk forgotten
\* (range(0, total_convs - chunk_size + 1, chunk_size))
ChunksDroppingRemainder(convs, k) ==
    LET n == IF Len(convs) - k + 1 > 0 THEN Len(convs) - k + 1 ELSE 0
        starts == Range0(n, k)
    IN  [j \in 1..Len(starts) |-> Slice(convs, starts[j], starts[j] + k)]

\* chunks = [conversations[i:i+chunk_size] for i in range(0, total_convs, chunk_size)]
Chunks(convs, k) ==
    LET starts == Range0(Len(convs), k)
    IN  [j \in 1..Len(starts) |-> Slice(convs, starts[j], starts[j] + k)]

\* the keywords of the program that occur in the substring a symbol stands for
KeywordsOf(sym) ==
    CASE sym = "recursive loop" -> {"recursive", "loop"}
      [] sym = "feedback loop" -> {"loop"}
      [] sym = "upstream logic" -> {"upstream", "logic"}
      [] sym = "system" -> {"system"}
      [] sym = "automate" -> {"automat"}
      [] sym = "data exhaust" -> {"data"}
      [] sym = "database" -> {"database", "data"}
      [] sym \in {"code", "program", "customer", "user", "architect", "data", "how do i",
                  "need to", "so i", "decided to"} -> {sym}
      [] OTHER -> {}

\* ChunkProcessor.contains_pattern
ContainsPattern(text, patterns) ==
    LET text_lower == Lower(text)
    IN  \E i \in 1..Len(text_lower) : KeywordsOf(text_lower[i]) \cap patterns # {}

CognitiveKeywords == {"recursive", "upstream", "downstream", "compress", "abstract"}
ProblemKeywords == {"automat", "system", "workflow", "process", "scale"}

\* unique_patterns of extract_unique_terms, in order
UniquePatterns ==
    << "upstream_w", "recursive_w", "modular_w", "compress_w", "w_as_lever",
       "build_the_w_that", "data_exhaust", "temporal_w", "delegation_is",
       "zero_w_cost" >>

\* the expression of unique_patterns a (lowercase) symbol is a match of
TermPatternOf(sym) ==
    CASE sym = "upstream logic" -> "upstream_w"
      [] sym = "recursive loop" -> "recursive_w"
      [] sym = "data exhaust" -> "data_exhaust"
      [] OTHER -> "none"

\* re.findall(pattern, text, re.IGNORECASE): the matched substrings as written
FindAllTerms(pattern, text) ==
    SelectSeq(text, LAMBDA c : TermPatternOf(LowerSym(c)) = pattern)

\* ChunkProcessor.extract_unique_terms
ExtractUniqueTerms(text) ==
    Concat([p \in 1..Len(UniquePatterns) |-> FindAllTerms(UniquePatterns[p], text)])

ContentSlice == 300

\* the items one conversation adds to a category of chunk_patterns
PatternItems(c, keywords) ==
    LET msgs == ExtractUserContent(c).out
        hits == SelectSeq(msgs, LAMBDA m : ContainsPattern(m.content, keywords))
    IN  [k \in 1..Len(hits) |-> [content |-> Take(hits[k].content, ContentSlice),
                                 title |-> c.title,
                                 timestamp |-> c.create_time]]

\* the terms one conversation counts into unique_phrases, in order
ConvTerms(c) ==
    LET msgs == ExtractUserContent(c).out
    IN  Concat([k \in 1..Len(msgs) |-> ExtractUniqueTerms(msgs[k].content)])

\* self.unique_phrases[term] += 1 for each term
RECURSIVE CountTerms(_, _)
CountTerms(counter, terms) ==
    IF terms = <<>> THEN counter
    ELSE LET t == terms[1]
             c1 == [k \in DOMAIN counter \cup {t} |->
                       IF k = t
                       THEN (IF t \in DOMAIN counter THEN counter[t] ELSE 0) + 1
                       ELSE counter[k]]
         IN  CountTerms(c1, Tail(terms))

\* the position in a chunk of the first conversation whose processing raises
\* (extract_user_content is the only call of the loop body that can), or the
\* chunk's length + 1
RECURSIVE FirstRaise(_, _)
FirstRaise(convs, j) ==
    IF j > Len(convs) THEN j
    ELSE IF ExtractUserContent(convs[j]).raised THEN j
    ELSE FirstRaise(convs, j + 1)

Categories ==
    {"cognitive_strategies", "problem_solving", "automation_mindset",
     "unique_terminology"}

\* chunk_patterns at the end of the loop over the conversations `done`
ChunkPatterns(done) ==
    [cat \in Categories |->
        IF cat = "cognitive_strategies"
        THEN Concat([j \in 1..Len(done) |-> PatternItems(done[j], CognitiveKeywords)])
        ELSE IF cat = "problem_solving"
        THEN Concat([j \in 1..Len(done) |-> PatternItems(done[j], ProblemKeywords)])
        ELSE <<>>]

\* defaultdict(list): d[key] of a missing key inserts an empty list
Touch(d, keys) ==
    [k \in DOMAIN d \cup keys |-> IF k \in DOMAIN d THEN d[k] ELSE <<>>]

\* for category, items in chunk_patterns.items():
\*     self.global_patterns[category].extend(items)
StoreChunk(gp, chunk_patterns) ==
    [k \in DOMAIN gp \cup Categories |->
        (IF k \in DOMAIN gp THEN gp[k] ELSE <<>>)
        \o (IF k \in Categories THEN chunk_patterns[k] ELSE <<>>)]

\* the non-empty groups of an if/elif chain over keyword tests, in the order
\* of the dict the chain fills: rules[r].keywords are the keywords of the
\* r-th test (none for a final else), Item(x) is what is appended for x
ChainGroups(items, rules, Item(_)) ==
    LET FirstRule(x) ==
            CHOOSE r \in 0..Len(rules) :
                /\ r > 0 => (rules[r].keywords = {}
                             \/ ContainsPattern(x.content, rules[r].keywords))
                /\ \A q \in 1..(r - 1) :
                       rules[q].keywords # {}
                       /\ ~ContainsPattern(x.content, rules[q].keywords)
                /\ r = 0 => \A q \in 1..Len(rules) :
                                rules[q].keywords # {}
                                /\ ~ContainsPattern(x.content, rules[q].keywords)
        groups == [r \in 1..Len(rules) |->
                      LET mine == SelectSeq(items, LAMBDA x : FirstRule(x) = r)
                      IN  [name |-> rules[r].name,
                           items |-> [k \in 1..Len(mine) |-> Item(mine[k])]]]
    IN  SelectSeq(groups, LAMBDA g : g.items # <<>>)

\* ChunkProcessor.group_by_similarity
GroupBySimilarity(items) ==
    ChainGroups(items,
        << [name |-> "Recursive Thinking", keywords |-> {"recursive", "loop"}],
           [name |-> "Upstream Logic", keywords |-> {"upstream", "downstream"}],
           [name |-> "Compression & Abstraction", keywords |-> {"compress", "abstract"}],
           [name |-> "System Architecture", keywords |-> {"system", "architect"}],
           [name |-> "Other", keywords |-> {}] >>,
        LAMBDA x : x)

\* ChunkProcessor.extract_problem_solving_approaches
ExtractProblemSolvingApproaches(patterns) ==
    ChainGroups(patterns,
        << [name |-> "Automation-First", keywords |-> {"automat"}],
           [name |-> "Data-Driven", keywords |-> {"data", "metric"}],
           [name |-> "System Thinking", keywords |-> {"system", "ecosystem"}],
           [name |-> "Iterative Refinement", keywords |-> {"iterat", "refin"}] >>,
        LAMBDA x : Take(x.content, 150) \o Ellipsis)

----------------------------------------------------------------------------
(* DeepConversationAnalyzer.identify_unique_concepts *)

\* unique_patterns: the rules in table order, each with its expressions in
\* order and its weight
UniqueConcepts ==
    << [concept |-> "recursive_systems", weight |-> 3,
        patterns |-> <<"recursive_x", "feedback_loop", "self_referential", "meta_x">>],
       [concept |-> "upstream_compression", weight |-> 3,
        patterns |-> <<"upstream_x", "root_cause", "first_principle", "compress_x">>],
       [concept |-> "modular_architecture", weight |-> 2,
        patterns |-> <<"modular_x", "components", "building_block", "compose">>],
       [concept |-> "temporal_abstraction", weight |-> 4,
        patterns |-> <<"temporal_x", "time_as_x", "future_self", "bypass_x">>],
       [concept |-> "delegation_as_survival", weight |-> 3,
        patterns |-> <<"delegation_survival", "learned_x", "never_had_help",
                       "on_my_own">>],
       [concept |-> "data_exhaust_mining", weight |-> 4,
        patterns |-> <<"data_exhaust", "passive_capture", "nothing_is_wasted",
                       "structured_capture">>] >>

\* the expression of unique_patterns a (lowercase) symbol is a match of
ExprOf(sym) ==
    CASE sym = "recursive loop" -> "recursive_x"
      [] sym = "feedback loop" -> "feedback_loop"
      [] sym = "upstream logic" -> "upstream_x"
      [] sym = "root cause" -> "root_cause"
      [] sym = "building block" -> "building_block"
      [] sym = "future self" -> "future_self"
      [] sym = "data exhaust" -> "data_exhaust"
      [] OTHER -> "none"

\* the positions of the matches of an expression in a text, re.IGNORECASE
MatchPositions(pattern, text) ==
    { i \in 1..Len(text) : ExprOf(LowerSym(text[i])) = pattern }

\* re.search(pattern, text, re.IGNORECASE) finds a match
Search(pattern, text) == MatchPositions(pattern, text) # {}

FirstMatch(pattern, text) ==
    CHOOSE i \in MatchPositions(pattern, text) :
        \A j \in MatchPositions(pattern, text) : i <= j

ContextLength == 150
NoMatchSlice == 300

\* DeepConversationAnalyzer.extract_context; the match of a symbol at
\* position i has match.start() = i - 1 and match.end() = i
ExtractContext(text, pattern, context_length) ==
    IF Search(pattern, text)
    THEN LET i == FirstMatch(pattern, text)
             start == IF (i - 1) - context_length > 0
                      THEN (i - 1) - context_length ELSE 0
             end == Min(Len(text), i + context_length)
         IN  Ellipsis \o SubSeq(text, start + 1, end) \o Ellipsis
    ELSE Take(text, NoMatchSlice) \o Ellipsis

\* the loop over config['patterns'] left at the first expression that matches
PatternHitsFirstOnly(rule, content) ==
    LET hits == SelectSeq(rule.patterns, LAMBDA p : Search(p, content))
    IN  IF hits = <<>> THEN <<>> ELSE <<hits[1]>>

\* the expressions of a rule for which `if re.search(pattern, content,
\* re.IGNORECASE)` holds, in the order of the loop over config['patterns']
PatternHits(rule, content) ==
    SelectSeq(rule.patterns, LAMBDA p : Search(p, content))

\* what the loops over unique_patterns append for one message, in order; msg
\* (conversation position, node id) says where the occurrence comes from and
\* is not a field of the program's record
MessageOccurrences(ci, title, m) ==
    LET content == Lower(m.content)
    IN  Concat([r \in 1..Len(UniqueConcepts) |->
            LET rule == UniqueConcepts[r]
                hits == PatternHits(rule, content)
            IN  [k \in 1..Len(hits) |->
                    [concept |-> rule.concept,
                     title |-> title,
                     excerpt |-> ExtractContext(content, hits[k], ContextLength),
                     timestamp |-> m.timestamp,
                     weight |-> rule.weight,
                     msg |-> <<ci, m.node_id>>]]])

\* concept_scores[concept].append(occ) for each occ in order; a concept's key
\* is inserted when it first fires
RECURSIVE AppendOccurrences(_, _)
AppendOccurrences(cs, occs) ==
    IF occs = <<>> THEN cs
    ELSE LET o == occs[1]
             inst == [title |-> o.title, excerpt |-> o.excerpt,
                      timestamp |-> o.timestamp, weight |-> o.weight, msg |-> o.msg]
             cs1 == IF \E k \in 1..Len(cs) : cs[k].concept = o.concept
                    THEN [k \in 1..Len(cs) |->
                             IF cs[k].concept = o.concept
                             THEN [cs[k] EXCEPT !.instances = Append(@, inst)]
                             ELSE cs[k]]
                    ELSE Append(cs, [concept |-> o.concept, instances |-> <<inst>>])
         IN  AppendOccurrences(cs1, Tail(occs))

RECURSIVE SumWeights(_)
SumWeights(instances) ==
    IF instances = <<>> THEN 0
    ELSE instances[1].weight + SumWeights(Tail(instances))

\* the concepts sorted by their number of occurrences instead
RECURSIVE SortedByCount(_)
SortedByCount(cs) ==
    IF cs = <<>> THEN <<>>
    ELSE LET rest == SortedByCount(SubSeq(cs, 1, Len(cs) - 1))
             e == cs[Len(cs)]
             before == SelectSeq(rest, LAMBDA x : Len(x.instances) >= Len(e.instances))
             after == SelectSeq(rest, LAMBDA x : Len(x.instances) < Len(e.instances))
         IN  before \o <<e>> \o after

\* sorted(concept_scores.items(), key=sum of weights, reverse=True): stable,
\* so equal keys keep their order
RECURSIVE SortedByScore(_)
SortedByScore(cs) ==
    IF cs = <<>> THEN <<>>
    ELSE LET rest == SortedByScore(SubSeq(cs, 1, Len(cs) - 1))
             e == cs[Len(cs)]
             before == SelectSeq(rest, LAMBDA x :
                           SumWeights(x.instances) >= SumWeights(e.instances))
             after == SelectSeq(rest, LAMBDA x :
                           SumWeights(x.instances) < SumWeights(e.instances))
         IN  before \o <<e>> \o after

ConceptCap == 100

----------------------------------------------------------------------------
(* SpecParts: safe_extract_content applied to bounded lists of fragments *)

PartChoices ==
    { StrPart(<<>>), StrPart(<<"a">>), StrPart(<<"b", "c">>),
      DictPart(<<"t">>, <<>>), DictPart(<<>>, <<"c">>), DictPart(<<"t">>, <<"c">>),
      DictPart(<<>>, <<>>), OtherPart }

PartLists == UNION { [1..n -> PartChoices] : n \in 0..MaxParts }

InitDecodeIdle ==
    /\ conv = [title |-> "none", create_time |-> 0, mapping |-> <<>>]
    /\ extractor = "idle"
    /\ result = [raised |-> FALSE, out |-> <<>>]

InitPartsIdle ==
    /\ parts = <<>>
    /\ flattened = [by |-> "idle", text |-> <<>>]

EmptyDict == [k \in {} |-> <<>>]

InitChunksIdle ==
    /\ conversations = <<>>
    /\ chunk_size = 0
    /\ chunks = <<>>
    /\ idx = 0
    /\ cpc = "idle"
    /\ global_patterns = EmptyDict
    /\ unique_phrases = EmptyDict
    /\ calls = <<>>
    /\ processed = {}
    /\ consolidated = 0
    /\ report = <<>>

InitConceptsIdle ==
    /\ da_conversations = <<>>
    /\ cidx = 0
    /\ dpc = "idle"
    /\ concept_scores = <<>>
    /\ ranking = <<>>

InitCallIdle ==
    /\ arg = <<>>
    /\ fn = "idle"
    /\ ret = <<>>

InitFinalIdle ==
    /\ all_mike_messages = <<>>
    /\ thinking_patterns = <<>>
    /\ passes = <<>>

InitParts ==
    /\ parts \in PartLists
    /\ flattened = [by |-> "none", text |-> <<>>]
    /\ InitDecodeIdle
    /\ InitChunksIdle
    /\ InitConceptsIdle
    /\ InitCallIdle
    /\ InitFinalIdle

CallDeepSafeExtractContent ==
    /\ flattened.by = "none"
    /\ flattened' = [by |-> "deep", text |-> DeepSafeExtractContent(parts)]
    /\ UNCHANGED <<parts, decodeVars, chunkVars, conceptVars, callVars,
                   finalVars>>

CallChunkSafeExtractContent ==
    /\ flattened.by = "none"
    /\ flattened' = [by |-> "chunk", text |-> ChunkSafeExtractContent(parts)]
    /\ UNCHANGED <<parts, decodeVars, chunkVars, conceptVars, callVars,
                   finalVars>>

NextParts == CallDeepSafeExtractContent \/ CallChunkSafeExtractContent

SpecParts == InitParts /\ [][NextParts]_vars

(* C9 as stated: the flattened text is the fragments' extractable texts    *)
(* joined by single spaces, and a fragment without extractable text (an    *)
(* empty string included) contributes nothing, not even a separator.  The  *)
(* nested content field counts as extractable text where the function      *)
(* reads it (DeepConversationAnalyzer) and as none where it does not       *)
(* (ChunkProcessor).                                                       *)
ExtractableText(part, withContent) ==
    IF part.t = "str" THEN part.text
    ELSE IF part.t = "dict" THEN
        IF part.text # <<>> THEN part.text
        ELSE IF withContent THEN part.content ELSE <<>>
    ELSE <<>>

ClaimedFlatten(ps, withContent) ==
    Join(SelectSeq([i \in 1..Len(ps) |-> ExtractableText(ps[i], withContent)],
                   LAMBDA t : t # <<>>),
         <<" ">>)

\* C9: the flattened text equals the non-empty extractable texts of the
\* fragments joined in order by single spaces.
C9_FlattenJoinsExtractableTexts ==
    /\ flattened.by = "deep" => flattened.text = ClaimedFlatten(parts, TRUE)
    /\ flattened.by = "chunk" => flattened.text = ClaimedFlatten(parts, FALSE)

----------------------------------------------------------------------------
(* SpecDecode: one extractor applied to one conversation record *)

Xs(n) == Rep("x", n)

\* the time stamps of the inputs
SomeTime == 7

NodeShapes ==
    { [p \in {0, 1} |-> NullNode],
      [p \in {0, 1} |-> Node("absent", "absent", "absent", "absent", "absent", <<>>, NoTime, p)],
      [p \in {0, 1} |-> Node("null", "absent", "absent", "absent", "absent", <<>>, NoTime, p)],
      [p \in {0, 1} |-> Node("dict", "absent", "absent", "dict", "list", <<StrPart(Xs(51))>>, SomeTime, p)],
      [p \in {0, 1} |-> Node("dict", "null", "absent", "dict", "list", <<StrPart(Xs(51))>>, SomeTime, p)],
      [p \in {0, 1} |-> Node("dict", "dict", "absent", "dict", "list", <<StrPart(Xs(51))>>, SomeTime, p)],
      [p \in {0, 1} |-> Node("dict", "dict", "user", "absent", "absent", <<>>, SomeTime, p)],
      [p \in {0, 1} |-> Node("dict", "dict", "user", "null", "absent", <<>>, SomeTime, p)],
      [p \in {0, 1} |-> Node("dict", "dict", "user", "dict", "absent", <<>>, SomeTime, p)],
      [p \in {0, 1} |-> Node("dict", "dict", "user", "dict", "null", <<>>, SomeTime, p)],
      [p \in {0, 1} |-> Node("dict", "dict", "user", "dict", "list", <<>>, SomeTime, p)],
      [p \in {0, 1} |-> GoodNode("assistant", <<StrPart(Xs(51))>>, SomeTime, p)],
      [p \in {0, 1} |-> GoodNode("user", <<StrPart(Xs(19))>>, SomeTime, p)],
      [p \in {0, 1} |-> GoodNode("user", <<StrPart(Xs(20))>>, SomeTime, p)],
      [p \in {0, 1} |-> GoodNode("user", <<StrPart(Xs(21))>>, SomeTime, p)],
      [p \in {0, 1} |-> GoodNode("user", <<StrPart(Xs(25))>>, NoTime, p)],
      [p \in {0, 1} |-> GoodNode("user", <<StrPart(Xs(50))>>, SomeTime, p)],
      [p \in {0, 1} |-> GoodNode("user", <<StrPart(Xs(51))>>, SomeTime, p)],
      [p \in {0, 1} |-> GoodNode("user", <<StrPart(<<" ">> \o Xs(20))>>, SomeTime, p)],
      [p \in {0, 1} |-> GoodNode("user", <<StrPart(Xs(10)), DictPart(Xs(9), <<>>)>>, SomeTime, p)],
      [p \in {0, 1} |-> GoodNode("user", <<DictPart(<<>>, Xs(51))>>, SomeTime, p)] }

NodeChoices == { sh[p] : sh \in NodeShapes, p \in {0, 1} }

Mappings == UNION { [1..n -> NodeChoices] : n \in 0..MaxNodes }

InitDecode ==
    /\ \E m \in Mappings :
          conv = [title |-> "t", create_time |-> SomeTime, mapping |-> m]
    /\ extractor = "none"
    /\ result = [raised |-> FALSE, out |-> <<>>]
    /\ InitPartsIdle
    /\ InitChunksIdle
    /\ InitConceptsIdle
    /\ InitCallIdle
    /\ InitFinalIdle

Call(name, res) ==
    /\ extractor = "none"
    /\ extractor' = name
    /\ result' = res
    /\ UNCHANGED <<conv, partsVars, chunkVars, conceptVars, callVars,
                   finalVars>>

CallExtractMessages == Call("extract_messages", ExtractMessages(conv))
CallExtractUserContent == Call("extract_user_content", ExtractUserContent(conv))
CallExtractUserMessages == Call("extract_user_messages", ExtractUserMessages(conv))
CallExtractMikeMessages == Call("extract_mike_messages", ExtractMikeMessages(conv))
CallLoadAndExtractAll == Call("load_and_extract_all", LoadAndExtractAll(conv))
CallExtractFullConversation ==
    Call("extract_full_conversation", ExtractFullConversation(conv))

NextDecode ==
    \/ CallExtractMessages
    \/ CallExtractUserContent
    \/ CallExtractUserMessages
    \/ CallExtractMikeMessages
    \/ CallLoadAndExtractAll
    \/ CallExtractFullConversation

SpecDecode == InitDecode /\ [][NextDecode]_vars

----------------------------------------------------------------------------
(* Claims about the extractors (SpecDecode) *)

Called == extractor \notin {"none", "idle"}
OutIds == { result.out[k].node_id : k \in 1..Len(result.out) }
NodeIds == 1..Len(conv.mapping)

\* a root: a node (not None) whose parent reference is absent
IsRoot(node) == ~node.null /\ node.parent = 0

\* node i is a root or hangs, by at most `fuel` parent references that each
\* resolve to a node of the mapping, below a root
RECURSIVE ReachableFromRoot(_, _, _)
ReachableFromRoot(mapping, i, fuel) ==
    /\ i \in 1..Len(mapping)
    /\ ~mapping[i].null
    /\ \/ IsRoot(mapping[i])
       \/ /\ fuel > 0
          /\ mapping[i].parent # i
          /\ ReachableFromRoot(mapping, mapping[i].parent, fuel - 1)

\* a node that lacks a message, an author or content, or is None itself
Malformed(node) ==
    \/ node.null
    \/ node.message # "dict"
    \/ node.author # "dict"
    \/ node.content # "dict"

\* the flattened text of a node as extract_full_conversation computes it
FullText(node) ==
    IF HasMessage(node) /\ node.content = "dict" /\ node.parts = "list"
    THEN TextOnlyJoin(node.plist) ELSE <<>>

\* C2: extract_full_conversation emits exactly one message for every node
\* reachable from a root (the root included) that carries a message whose
\* flattened text is not empty (stated for the well-formed nodes; the
\* malformed ones are C4's).
C2_EmitsEveryReachableMessage ==
    (extractor = "extract_full_conversation" /\ ~result.raised) =>
        \A i \in NodeIds :
            (ReachableFromRoot(conv.mapping, i, Len(conv.mapping))
             /\ ~Malformed(conv.mapping[i])
             /\ FullText(conv.mapping[i]) # <<>>)
            => Cardinality({k \in 1..Len(result.out) : result.out[k].node_id = i}) = 1

\* C3: in the sequence extract_full_conversation returns, the message of a
\* node's parent comes before the node's own message.  (It holds of the code
\* only because the sequence is always empty: C3_SomeMessageReturned is
\* never reached.)
C3_ParentBeforeChild ==
    extractor = "extract_full_conversation" =>
        \A k, l \in 1..Len(result.out) :
            conv.mapping[result.out[l].node_id].parent = result.out[k].node_id
            => k < l

C3_SomeMessageReturned ==
    extractor = "extract_full_conversation" /\ result.out # <<>>

\* C4: the extractors return without raising whatever nodes lack a message,
\* an author or content; such nodes are skipped, and the well-formed nodes'
\* messages are still returned.
C4_ExtractorsNeverRaise ==
    extractor \in {"extract_messages", "extract_user_content",
                   "extract_full_conversation"} =>
        /\ ~result.raised
        /\ \A i \in OutIds : ~Malformed(conv.mapping[i])
        /\ extractor = "extract_messages" =>
              \A i \in NodeIds :
                  (~Malformed(conv.mapping[i]) /\ conv.mapping[i].role # "absent"
                   /\ DeepSafeExtractContent(conv.mapping[i].plist) # <<>>)
                  => i \in OutIds

\* C7: every element an extractor returns comes from a node whose message
\* is present.
C7_OutputsHaveMessage ==
    Called => \A i \in OutIds :
                 ~conv.mapping[i].null /\ conv.mapping[i].message = "dict"

\* an extractor returned a message from a mapping that also holds a node
\* without a message
C7_Witness ==
    /\ extractor \in {"extract_messages", "extract_user_messages"}
    /\ ~result.raised
    /\ result.out # <<>>
    /\ \E i \in NodeIds : ~conv.mapping[i].null /\ conv.mapping[i].message # "dict"

\* a user message with a list of fragments
UserMessage(node) ==
    /\ HasMessage(node)
    /\ node.author = "dict" /\ node.role = "user"
    /\ node.content = "dict" /\ node.parts = "list"

\* C8: a message is retained if and only if the length of its flattened text
\* is at least the minimum length (20 in load_and_extract_all and
\* extract_mike_messages, 50 in extract_user_messages).
C8_RetainedIffAtLeastMinimum ==
    /\ (extractor = "load_and_extract_all" /\ ~result.raised) =>
          \A i \in NodeIds : UserMessage(conv.mapping[i]) =>
              (i \in OutIds
               <=> Len(Strip(TextOnlyJoin(conv.mapping[i].plist))) >= MinLenFinal)
    /\ (extractor = "extract_mike_messages" /\ ~result.raised) =>
          \A i \in NodeIds : UserMessage(conv.mapping[i]) =>
              (i \in OutIds
               <=> Len(TextOnlyJoin(conv.mapping[i].plist)) >= MinLenReal)
    /\ (extractor = "extract_user_messages" /\ ~result.raised) =>
          \A i \in NodeIds : UserMessage(conv.mapping[i]) =>
              (i \in OutIds
               <=> Len(DeepSafeExtractContent(conv.mapping[i].plist)) >= MinLenDeep)

----------------------------------------------------------------------------
(* SpecChunks: one run of ChunkProcessor.process_all_chunks *)

UserConv(title, text) ==
    [title |-> title, create_time |-> SomeTime,
     mapping |-> <<GoodNode("user", <<StrPart(text)>>, SomeTime, 0)>>]

PlainConv == UserConv("plain", Xs(51))

ConvChoices ==
    { PlainConv,
      UserConv("recursive", Xs(50) \o <<" ", "recursive loop">>),
      UserConv("system", Xs(50) \o <<" ", "system", " ", "Upstream Logic">>),
      UserConv("short", <<"upstream logic", " ", "automate">>),
      [title |-> "two", create_time |-> SomeTime,
       mapping |-> << GoodNode("assistant", <<StrPart(Xs(51))>>, SomeTime, 0),
                      GoodNode("user", <<StrPart(Xs(50) \o <<" ", "data exhaust">>)>>,
                               SomeTime, 1),
                      NullNode >>],
      [title |-> "broken", create_time |-> SomeTime,
       mapping |-> << GoodNode("user", <<StrPart(Xs(50) \o <<" ", "upstream logic">>)>>,
                               SomeTime, 0),
                      Node("dict", "dict", "user", "null", "absent", <<>>, SomeTime, 1) >>] }

Corpora ==
    UNION { [1..n -> ConvChoices] : n \in 0..MaxConvs }

DefaultChunkSize == 50

InitChunks ==
    /\ \/ conversations \in Corpora /\ chunk_size \in 1..MaxChunkSize
       \/ conversations = Rep(PlainConv, ScenarioConvs) /\ chunk_size = DefaultChunkSize
    /\ chunks = <<>>
    /\ idx = 0
    /\ cpc = "start"
    /\ global_patterns = EmptyDict
    /\ unique_phrases = EmptyDict
    /\ calls = <<>>
    /\ processed = {}
    /\ consolidated = 0
    /\ report = <<>>
    /\ InitPartsIdle
    /\ InitDecodeIdle
    /\ InitConceptsIdle
    /\ InitCallIdle
    /\ InitFinalIdle

\* process_all_chunks up to its loop: load the corpus and split it
Split ==
    /\ cpc = "start"
    /\ chunks' = Chunks(conversations, chunk_size)
    /\ cpc' = "loop"
    /\ UNCHANGED <<conversations, chunk_size, idx, global_patterns, unique_phrases,
                   calls, processed, consolidated, report, partsVars, decodeVars,
                   conceptVars,
                   callVars, finalVars>>

\* one turn of the loop: self.process_chunk(chunk, idx).  A conversation whose
\* extraction raises ends process_chunk and process_all_chunks: what earlier
\* conversations of the chunk counted into unique_phrases stays, chunk_patterns
\* is lost with the frame
ProcessChunk ==
    /\ cpc = "loop"
    /\ idx < Len(chunks)
    /\ LET chunk == chunks[idx + 1]
           r == FirstRaise(chunk, 1)
           done == SubSeq(chunk, 1, r - 1)
           first == idx * chunk_size
       IN  /\ calls' = Append(calls, [chunk_idx |-> idx, conversations |-> chunk])
           /\ unique_phrases' =
                 CountTerms(unique_phrases,
                            Concat([j \in 1..Len(done) |-> ConvTerms(done[j])]))
           /\ processed' = processed \cup { first + j : j \in 1..Len(done) }
           /\ IF r > Len(chunk)
              THEN /\ global_patterns' = StoreChunk(global_patterns, ChunkPatterns(done))
                   /\ idx' = idx + 1
                   /\ cpc' = "loop"
              ELSE /\ cpc' = "raised"
                   /\ UNCHANGED <<global_patterns, idx>>
    /\ UNCHANGED <<conversations, chunk_size, chunks, consolidated, report,
                   partsVars, decodeVars, conceptVars,
                   callVars, finalVars>>

\* self.consolidate_findings() after the loop; its reads of
\* self.global_patterns['cognitive_strategies'] and ['problem_solving'] go
\* through the defaultdict
Consolidate ==
    /\ cpc = "loop"
    /\ idx = Len(chunks)
    /\ global_patterns' = Touch(global_patterns, {"cognitive_strategies", "problem_solving"})
    /\ consolidated' = consolidated + 1
    /\ report' =
          LET grouped == GroupBySimilarity(
                             Take(global_patterns'["cognitive_strategies"], 50))
              approaches == ExtractProblemSolvingApproaches(
                                Take(global_patterns'["problem_solving"], 50))
          IN  [strategies |->
                   [g \in 1..Len(grouped) |->
                       [name |-> grouped[g].name,
                        items |-> LET top == Take(grouped[g].items, 3)
                                  IN  [k \in 1..Len(top) |-> top[k].content]]],
               approaches |->
                   [a \in 1..Len(approaches) |->
                       [name |-> approaches[a].name,
                        items |-> Take(approaches[a].items, 2)]]]
    /\ cpc' = "done"
    /\ UNCHANGED <<conversations, chunk_size, chunks, idx, unique_phrases, calls,
                   processed, partsVars, decodeVars, conceptVars,
                   callVars, finalVars>>

NextChunks == Split \/ ProcessChunk \/ Consolidate

SpecChunks == InitChunks /\ [][NextChunks]_vars

----------------------------------------------------------------------------
(* Claims about the chunked run (SpecChunks) *)

\* process_all_chunks has returned or has been left by an exception
RunEnded == cpc \in {"done", "raised"}

\* C1: the corpus of N conversations is split into ceil(N / k) contiguous
\* chunks that, concatenated in order, are the corpus; every chunk but the
\* last holds k conversations and the last holds 1 to k.
C1_ChunksPartitionCorpus ==
    cpc \in {"loop", "done", "raised"} =>
        LET n == Len(conversations)
            k == chunk_size
            m == Len(chunks)
        IN  /\ m = (n + k - 1) \div k
            /\ Concat(chunks) = conversations
            /\ \A j \in 1..(m - 1) : Len(chunks[j]) = k
            /\ m > 0 => Len(chunks[m]) \in 1..k

\* 120 conversations with k = 50 have been split into chunks of 50, 50, 20
C1_Witness ==
    /\ cpc = "loop"
    /\ Len(conversations) = 120 /\ chunk_size = 50
    /\ [j \in 1..Len(chunks) |-> Len(chunks[j])] = <<50, 50, 20>>

\* C5: when the processing of one conversation raises, only that
\* conversation's contribution is lost: every other conversation of the
\* corpus is still processed and consolidate_findings still runs.
C5_FailureLosesOneConversation ==
    RunEnded =>
        /\ \A i \in 1..Len(conversations) :
               ~ExtractUserContent(conversations[i]).raised => i \in processed
        /\ consolidated = 1

\* C6: process_chunk is invoked exactly once per chunk, in ascending chunk
\* order, each call with that chunk's conversations only, and
\* consolidate_findings runs exactly once, after the last chunk.
C6_OncePerChunkThenConsolidate ==
    /\ Len(calls) <= Len(chunks)
    /\ \A j \in 1..Len(calls) :
           calls[j] = [chunk_idx |-> j - 1, conversations |-> chunks[j]]
    /\ consolidated <= 1
    /\ consolidated = 1 => Len(calls) = Len(chunks)
    /\ RunEnded => (Len(calls) = Len(chunks) /\ consolidated = 1)

----------------------------------------------------------------------------
(* SpecConcepts: one run of identify_unique_concepts *)

Pad == Xs(50)

TextConv(title, texts) ==
    [title |-> title, create_time |-> SomeTime,
     mapping |-> [i \in 1..Len(texts) |->
                     GoodNode("user", <<StrPart(texts[i])>>, SomeTime, i - 1)]]

ConceptConvChoices ==
    { TextConv("plain", <<Pad \o <<"x">>>>),
      TextConv("once", <<Pad \o <<"feedback loop">>>>),
      TextConv("twice", <<Pad \o <<"feedback loop", " ", "feedback loop">>>>),
      TextConv("two expressions", <<Pad \o <<"recursive loop", " ", "FEEDBACK LOOP">>>>),
      TextConv("two rules", <<<<"future self">> \o Pad \o <<"root cause">>>>),
      TextConv("two messages", <<Pad \o <<"data exhaust">>,
                                 Pad \o <<"building block", "building block">>>>),
      TextConv("short", <<<<"root cause", " ", "root cause">>>>),
      TextConv("blocks", <<Pad \o <<"building block">>, Pad \o <<"building block">>,
                           Pad \o <<"building block", " ", "future self">>>>),
      TextConv("mix", <<Pad \o <<"root cause">>,
                        Pad \o <<"future self", " ", "feedback loop">>>>),
      [title |-> "broken", create_time |-> SomeTime,
       mapping |-> <<Node("dict", "dict", "user", "null", "absent", <<>>, SomeTime, 0)>>] }

InitConcepts ==
    /\ da_conversations \in UNION { [1..n -> ConceptConvChoices] : n \in 0..MaxConceptConvs }
    /\ cidx = 0
    /\ dpc = "loop"
    /\ concept_scores = <<>>
    /\ ranking = <<>>
    /\ InitPartsIdle
    /\ InitDecodeIdle
    /\ InitChunksIdle
    /\ InitCallIdle
    /\ InitFinalIdle

\* one turn of `for conv in self.conversations[:100]`
ConceptStep ==
    /\ dpc = "loop"
    /\ cidx < Len(Take(da_conversations, ConceptCap))
    /\ LET c == da_conversations[cidx + 1]
           r == ExtractUserMessages(c)
       IN  IF r.raised
           THEN /\ dpc' = "raised"
                /\ UNCHANGED <<cidx, concept_scores>>
           ELSE /\ concept_scores' =
                      AppendOccurrences(concept_scores,
                          Concat([k \in 1..Len(r.out) |->
                                     MessageOccurrences(cidx + 1, c.title, r.out[k])]))
                /\ cidx' = cidx + 1
                /\ dpc' = "loop"
    /\ UNCHANGED <<da_conversations, ranking, partsVars, decodeVars, chunkVars,
                   callVars, finalVars>>

\* the loop that prints the concepts by score
ConceptReport ==
    /\ dpc = "loop"
    /\ cidx = Len(Take(da_conversations, ConceptCap))
    /\ ranking' = LET sorted == SortedByScore(concept_scores)
                  IN  [k \in 1..Len(sorted) |->
                          [concept |-> sorted[k].concept,
                           score |-> SumWeights(sorted[k].instances),
                           example |-> sorted[k].instances[1].excerpt]]
    /\ dpc' = "done"
    /\ UNCHANGED <<da_conversations, cidx, concept_scores, partsVars, decodeVars,
                   chunkVars, callVars, finalVars>>

NextConcepts == ConceptStep \/ ConceptReport

SpecConcepts == InitConcepts /\ [][NextConcepts]_vars

----------------------------------------------------------------------------
(* Claims about identify_unique_concepts (SpecConcepts) *)

\* the user messages of the conversations the loop has taken, as
\* [ci, title, m]
RECURSIVE ProcessedMessages(_)
ProcessedMessages(n) ==
    IF n = 0 THEN <<>>
    ELSE LET out == ExtractUserMessages(da_conversations[n]).out
         IN  ProcessedMessages(n - 1)
             \o [k \in 1..Len(out) |-> [ci |-> n, m |-> out[k]]]

\* the occurrences recorded for a rule and a message
OccurrencesOf(concept, ci, node_id) ==
    LET es == SelectSeq(concept_scores, LAMBDA e : e.concept = concept)
    IN  IF es = <<>> THEN <<>>
        ELSE SelectSeq(es[1].instances, LAMBDA o : o.msg = <<ci, node_id>>)

RECURSIVE SumOver(_, _)
SumOver(f, S) ==
    IF S = {} THEN 0
    ELSE LET x == CHOOSE y \in S : TRUE IN f[x] + SumOver(f, S \ {x})

\* the total number of matches of a rule's expressions in a text
TotalMatches(rule, text) ==
    SumOver([k \in 1..Len(rule.patterns) |->
                Cardinality(MatchPositions(rule.patterns[k], text))],
            1..Len(rule.patterns))

\* the number of a rule's expressions that match a text
MatchingExpressions(rule, text) ==
    Cardinality({ k \in 1..Len(rule.patterns) : Search(rule.patterns[k], text) })

\* C10 as stated: the number of occurrences recorded for a rule and a message
\* is the total number of matches of the rule's expressions in the message.
C10_OneOccurrencePerMatch ==
    LET pm == ProcessedMessages(cidx)
    IN  \A k \in 1..Len(pm), r \in 1..Len(UniqueConcepts) :
            Len(OccurrencesOf(UniqueConcepts[r].concept, pm[k].ci, pm[k].m.node_id))
            = TotalMatches(UniqueConcepts[r], pm[k].m.content)

\* What the code does instead of C10: the number of occurrences recorded for
\* a rule and a message is the number of the rule's expressions that match
\* the message; an expression that matches several times is recorded once.
OneOccurrencePerMatchingExpression ==
    LET pm == ProcessedMessages(cidx)
    IN  \A k \in 1..Len(pm), r \in 1..Len(UniqueConcepts) :
            Len(OccurrencesOf(UniqueConcepts[r].concept, pm[k].ci, pm[k].m.node_id))
            = MatchingExpressions(UniqueConcepts[r], pm[k].m.content)

\* a processed message in which one expression matches twice and another
\* message in which two expressions of one rule match
RepeatedMatchProcessed ==
    LET pm == ProcessedMessages(cidx)
    IN  /\ \E k \in 1..Len(pm), r \in 1..Len(UniqueConcepts) :
               /\ TotalMatches(UniqueConcepts[r], pm[k].m.content) = 2
               /\ MatchingExpressions(UniqueConcepts[r], pm[k].m.content) = 1
               /\ Len(OccurrencesOf(UniqueConcepts[r].concept, pm[k].ci,
                                    pm[k].m.node_id)) = 1
        /\ \E k \in 1..Len(pm), r \in 1..Len(UniqueConcepts) :
               /\ MatchingExpressions(UniqueConcepts[r], pm[k].m.content) = 2
               /\ Len(OccurrencesOf(UniqueConcepts[r].concept, pm[k].ci,
                                    pm[k].m.node_id)) = 2

\* the place of a concept in concept_scores: the order of first firing
FiredAt(concept) ==
    CHOOSE k \in 1..Len(concept_scores) : concept_scores[k].concept = concept

\* C14: identify_unique_concepts reports every concept that fired once, with
\* the sum of its occurrences' weights as score, in non-increasing order of
\* score, and concepts of equal score in the order in which they first fired.
C14_RankedBySummedWeight ==
    dpc = "done" =>
        /\ Len(ranking) = Len(concept_scores)
        /\ \A k \in 1..Len(ranking) :
               /\ \E e \in 1..Len(concept_scores) :
                      /\ concept_scores[e].concept = ranking[k].concept
                      /\ ranking[k].score = SumWeights(concept_scores[e].instances)
               /\ \A l \in 1..Len(ranking) : k < l =>
                      /\ ranking[k].concept # ranking[l].concept
                      /\ ranking[k].score >= ranking[l].score
                      /\ ranking[k].score = ranking[l].score =>
                             FiredAt(ranking[k].concept) < FiredAt(ranking[l].concept)

\* a report in which a concept with fewer occurrences but a larger sum of
\* weights precedes another, and two concepts of equal score stand in the
\* order of their first firing, against the order of the rule table
C14_Witness ==
    /\ dpc = "done"
    /\ \E k, l \in 1..Len(ranking) :
           /\ k < l
           /\ ranking[k].score > ranking[l].score
           /\ Len(concept_scores[FiredAt(ranking[k].concept)].instances)
              < Len(concept_scores[FiredAt(ranking[l].concept)].instances)
    /\ \E k, l \in 1..Len(ranking) :
           /\ k < l
           /\ ranking[k].score = ranking[l].score
           /\ ranking[k].concept = "upstream_compression"
           /\ ranking[l].concept = "recursive_systems"

----------------------------------------------------------------------------
(* The classification passes that keep a count and a short list of         *)
(* examples per rule: ConversationAnalyzer.identify_themes and             *)
(* extract_thinking_patterns, DeepDiveAnalyzer.extract_unique_mike_isms    *)

ExampleCap == 3

\* for each firing in order: counts[rule] += 1 and
\* `if len(examples[rule]) < 3: examples[rule].append(example)`
RECURSIVE TallyCapped(_, _)
TallyCapped(acc, firings) ==
    IF firings = <<>> THEN acc
    ELSE LET f == firings[1]
             old == IF f.rule \in DOMAIN acc THEN acc[f.rule]
                    ELSE [count |-> 0, examples |-> <<>>]
             new == [count |-> old.count + 1,
                     examples |-> IF Len(old.examples) < ExampleCap
                                  THEN Append(old.examples, f.example)
                                  ELSE old.examples]
         IN  TallyCapped([k \in DOMAIN acc \cup {f.rule} |->
                             IF k = f.rule THEN new ELSE acc[k]],
                         Tail(firings))

\* the user messages a pass takes from a corpus through extract, in order,
\* each with its conversation's title
UserMessagesOf(convs, extract(_)) ==
    Concat([c \in 1..Len(convs) |->
        LET user == SelectSeq(extract(convs[c]).out, LAMBDA m : m.role = "user")
        IN  [k \in 1..Len(user) |-> [title |-> convs[c].title, content |-> user[k].content]]])

\* what a pass holds when its loops end: nothing when an extraction raised
PassResult(convs, extract(_), firings) ==
    IF \E c \in 1..Len(convs) : extract(convs[c]).raised
    THEN [raised |-> TRUE, tally |-> EmptyDict]
    ELSE [raised |-> FALSE, tally |-> TallyCapped(EmptyDict, firings)]

\* ConversationAnalyzer.identify_themes: its loops fire a theme for a user
\* message that contains one of the theme's keywords
IdentifyThemes(convs) ==
    LET theme_keywords ==
            << [theme |-> "automation",
                keywords |-> {"automat", "workflow", "system", "process", "efficiency"}],
               [theme |-> "ai_development",
                keywords |-> {"ai", "llm", "gpt", "claude", "model", "prompt"}],
               [theme |-> "business",
                keywords |-> {"business", "customer", "revenue", "scale", "growth"}],
               [theme |-> "coding",
                keywords |-> {"code", "function", "api", "database", "backend", "frontend"}],
               [theme |-> "golf",
                keywords |-> {"golf", "simulator", "clubhouse", "booking", "facility"}],
               [theme |-> "philosophy",
                keywords |-> {"think", "mental", "recursive", "upstream", "logic"}],
               [theme |-> "learning",
                keywords |-> {"learn", "understand", "knowledge", "pattern", "insight"}] >>
        msgs == UserMessagesOf(convs, ExtractMessages)
    IN  PassResult(convs, ExtractMessages,
          Concat([k \in 1..Len(msgs) |->
            LET hit == SelectSeq(theme_keywords,
                           LAMBDA t : ContainsPattern(msgs[k].content, t.keywords))
            IN  [h \in 1..Len(hit) |->
                    [rule |-> hit[h].theme,
                     example |-> [title |-> msgs[k].title,
                                  excerpt |-> Take(msgs[k].content, 200) \o Ellipsis]]]]))

\* ConversationAnalyzer.extract_thinking_patterns: a rule fires for a user
\* message when re.search finds its expression in the message
ExtractThinkingPatterns(convs) ==
    LET patterns == << [name |-> "recursive_thinking",
                        matches |-> {"recursive loop", "feedback loop"}],
                       [name |-> "upstream_logic",
                        matches |-> {"upstream logic", "root cause"}],
                       [name |-> "modular_design", matches |-> {"building block"}],
                       [name |-> "compression", matches |-> {}],
                       [name |-> "system_thinking", matches |-> {"system"}],
                       [name |-> "data_driven", matches |-> {"data exhaust"}] >>
        msgs == UserMessagesOf(convs, ExtractMessages)
    IN  PassResult(convs, ExtractMessages,
          Concat([k \in 1..Len(msgs) |->
            LET hit == SelectSeq(patterns, LAMBDA p :
                           \E i \in 1..Len(msgs[k].content) :
                               LowerSym(msgs[k].content[i]) \in p.matches)
            IN  [h \in 1..Len(hit) |->
                    [rule |-> hit[h].name,
                     example |-> Take(msgs[k].content, 300) \o Ellipsis]]]))

\* DeepDiveAnalyzer.extract_unique_mike_isms: re.finditer yields every match
\* of every expression; the rule is the matched phrase in lower case, the
\* example the 50 characters around the match
ExtractUniqueMikeIsms(convs) ==
    LET unique_patterns == << {"to be honest"}, {"might as well"}, {"who knows"},
                              {}, {}, {}, {}, {}, {}, {} >>
        msgs == UserMessagesOf(convs, ExtractFullConversation)
    IN  PassResult(convs, ExtractFullConversation,
          Concat([k \in 1..Len(msgs) |->
            Concat([p \in 1..Len(unique_patterns) |->
                LET content == msgs[k].content
                    at == SelectSeq([i \in 1..Len(content) |-> i],
                              LAMBDA i : LowerSym(content[i]) \in unique_patterns[p])
                IN  [h \in 1..Len(at) |->
                        [rule |-> LowerSym(content[at[h]]),
                         example |-> SubSeq(content,
                                       (IF at[h] - 1 - 50 > 0 THEN at[h] - 1 - 50 ELSE 0) + 1,
                                       Min(Len(content), at[h] + 50))]]])]))

----------------------------------------------------------------------------
(* FinalAnalyzer: extract_thinking_patterns and find_unique_insights over  *)
(* self.all_mike_messages                                                  *)

\* FinalAnalyzer.extract_thinking_patterns: for each message and each rule
\* whose expression re.search finds in it,
\* self.thinking_patterns[pattern_name].append(...); tp is the field before
FinalExtractThinkingPatterns(tp, msgs) ==
    LET patterns == [uncertainty |-> {"who knows"},
                     pragmatic |-> {"might as well"},
                     time_conscious |-> {},
                     building |-> {"automate", "building block"},
                     learning |-> {},
                     connection |-> {}]
        Fires(name, m) == \E k \in 1..Len(m.content) :
                              LowerSym(m.content[k]) \in patterns[name]
        Found(name) ==
            LET hit == SelectSeq(msgs, LAMBDA m : Fires(name, m))
            IN  [h \in 1..Len(hit) |->
                    [excerpt |-> IF Len(hit[h].content) > 200
                                 THEN Take(hit[h].content, 200) \o Ellipsis
                                 ELSE hit[h].content,
                     title |-> hit[h].title]]
        fired == { name \in DOMAIN patterns : Found(name) # <<>> }
    IN  [name \in DOMAIN tp \cup fired |->
            (IF name \in DOMAIN tp THEN tp[name] ELSE <<>>)
            \o (IF name \in fired THEN Found(name) ELSE <<>>)]

\* re.finditer of one expression of insight_patterns, `<head> (.{20,100})`
\* (`realized (?:that )?(.{20,100})` for the first), from position pos on:
\* the captured groups, in order
RECURSIVE InsightGroups(_, _, _, _)
InsightGroups(content, heads, optional, pos) ==
    IF pos > Len(content) THEN <<>>
    ELSE LET At(k) == IF k <= Len(content) THEN LowerSym(content[k]) ELSE "$"
             \* the group that starts at g: greedy, 20 to 100 characters
             Group(g) == SubSeq(content, g, Min(Len(content), g + 99))
             after == pos + 2
             skipped == after + 2
             start == IF At(after) \in optional /\ At(after + 1) = " "
                         /\ Len(Group(skipped)) >= 20
                      THEN skipped ELSE after
         IN  IF At(pos) \in heads /\ At(pos + 1) = " " /\ Len(Group(start)) >= 20
             THEN <<Group(start)>>
                  \o InsightGroups(content, heads, optional,
                                   start + Len(Group(start)))
             ELSE InsightGroups(content, heads, optional, pos + 1)

\* the loop over insights[:30] that prints an insight unless its lower-cased
\* text was printed before or is not longer than 30
RECURSIVE PrintInsights(_, _)
PrintInsights(insights, seen) ==
    IF insights = <<>> THEN <<>>
    ELSE LET insight == Lower(insights[1].insight)
         IN  IF insight \notin seen /\ Len(insight) > 30
             THEN <<insights[1]>>
                  \o PrintInsights(Tail(insights), seen \cup {insight})
             ELSE PrintInsights(Tail(insights), seen)

\* FinalAnalyzer.find_unique_insights: what it prints
FindUniqueInsights(msgs) ==
    LET insight_patterns ==
            << [heads |-> {"realized"}, optional |-> {"that"}],
               [heads |-> {"the point is"}, optional |-> {}],
               [heads |-> {"what i've learned"}, optional |-> {}],
               [heads |-> {"turns out"}, optional |-> {}],
               [heads |-> {"basically"}, optional |-> {}],
               [heads |-> {"the way i see it"}, optional |-> {}] >>
        insights ==
            Concat([k \in 1..Len(msgs) |->
                Concat([p \in 1..Len(insight_patterns) |->
                    LET groups == InsightGroups(msgs[k].content,
                                      insight_patterns[p].heads,
                                      insight_patterns[p].optional, 1)
                    IN  [g \in 1..Len(groups) |->
                            [insight |-> Strip(groups[g]),
                             title |-> msgs[k].title,
                             timestamp |-> msgs[k].timestamp]]])])
    IN  PrintInsights(Take(insights, 30), {})

----------------------------------------------------------------------------
(* DecisionTreeExtractor: extract_problem_solutions and categorize_problem *)

\* a lookup that tests the data keywords before the customer keywords
CategorizeDataFirst(problem_text) ==
    LET problem_lower == Lower(problem_text)
    IN  IF ContainsPattern(problem_lower, {"automat"}) THEN "automation"
        ELSE IF ContainsPattern(problem_lower, {"code", "program"}) THEN "coding"
        ELSE IF ContainsPattern(problem_lower, {"database", "data"})
        THEN "data_management"
        ELSE IF ContainsPattern(problem_lower, {"customer", "user"})
        THEN "customer_service"
        ELSE IF ContainsPattern(problem_lower, {"system", "architect"})
        THEN "system_design"
        ELSE "general"

\* DecisionTreeExtractor.categorize_problem
CategorizeProblem(problem_text) ==
    LET problem_lower == Lower(problem_text)
    IN  IF ContainsPattern(problem_lower, {"automat"}) THEN "automation"
        ELSE IF ContainsPattern(problem_lower, {"code", "program"}) THEN "coding"
        ELSE IF ContainsPattern(problem_lower, {"customer", "user"})
        THEN "customer_service"
        ELSE IF ContainsPattern(problem_lower, {"database", "data"})
        THEN "data_management"
        ELSE IF ContainsPattern(problem_lower, {"system", "architect"})
        THEN "system_design"
        ELSE "general"

\* the loop over conv['mapping'] of the DecisionTreeExtractor passes: the
\* messages of the given roles with a non-empty text, in mapping order, up to
\* the node at which the loop raises (extract_problem_solutions keeps them as
\* its conversation flow)
FlowMessages(c, roles) ==
    LET Step(id) ==
            LET node == c.mapping[id]
            IN  IF ~NodeTruthy(node) THEN Skip
                ELSE IF ~HasMessage(node) THEN Skip
                ELSE IF node.author = "null" THEN Raise     \* None.get('role')
                ELSE IF node.role \notin roles THEN Skip
                ELSE IF node.content = "null" THEN Raise
                ELSE IF node.content = "dict" /\ node.parts = "null" THEN Raise
                ELSE LET text == TextOnlyJoin(
                                     IF node.content = "dict" /\ node.parts = "list"
                                     THEN node.plist ELSE <<>>)
                     IN  IF text # <<>>
                         THEN Emit([role |-> node.role, content |-> text,
                                    timestamp |-> MsgCreateTime(node), node_id |-> id])
                         ELSE Skip
    IN  FieldLoopResult([id \in 1..Len(c.mapping) |-> Step(id)])

\* the window searched after a 3-message look-ahead
WiderSolutionRange(i, n) == (i + 1)..Min(i + 3, n)

\* range(i+1, min(i+3, len(messages))), for the i-th message counted from 1
SolutionRange(i, n) == (i + 1)..Min(i + 2, n)

ProblemIndicators ==
    {"how do i", "how can i", "need to", "trying to", "issue with", "problem is",
     "stuck on", "help with"}

SolutionIndicators ==
    {"so i", "decided to", "went with", "ended up", "solution was", "fixed it by"}

\* the pairing of one conversation without the break after the first solution
\* message: one record for every solution message of the window
ConversationPairsNoBreak(ci, c) ==
    LET messages == FlowMessages(c, {"user", "assistant"}).out
        n == Len(messages)
        Pair(i, j) ==
            IF /\ messages[i].role = "user"
               /\ ContainsPattern(messages[i].content, ProblemIndicators)
               /\ messages[j].role = "user"
               /\ ContainsPattern(messages[j].content, SolutionIndicators)
            THEN << [problem |-> Take(messages[i].content, 300),
                     solution |-> Take(messages[j].content, 300),
                     title |-> c.title,
                     at |-> <<ci, i, j>>] >>
            ELSE <<>>
        PairsOf(i) == Concat([q \in 1..Cardinality(SolutionRange(i, n)) |-> Pair(i, i + q)])
    IN  Concat([i \in 1..(n - 1) |-> PairsOf(i)])

\* the problem_solution_pairs of one conversation, in order; at (the
\* conversation, the problem message, the solution message) says where a pair
\* comes from and is not a field of the program's record
ConversationPairs(ci, c) ==
    LET messages == FlowMessages(c, {"user", "assistant"}).out
        n == Len(messages)
        Solves(j) == /\ messages[j].role = "user"
                     /\ ContainsPattern(messages[j].content, SolutionIndicators)
        Pair(i) ==
            IF /\ messages[i].role = "user"
               /\ ContainsPattern(messages[i].content, ProblemIndicators)
               /\ \E j \in SolutionRange(i, n) : Solves(j)
            THEN LET j == CHOOSE j \in SolutionRange(i, n) :
                              Solves(j) /\ \A q \in SolutionRange(i, n) :
                                               Solves(q) => j <= q
                 IN  << [problem |-> Take(messages[i].content, 300),
                         solution |-> Take(messages[j].content, 300),
                         title |-> c.title,
                         at |-> <<ci, i, j>>] >>
            ELSE <<>>
    IN  Concat([i \in 1..(n - 1) |-> Pair(i)])

\* DecisionTreeExtractor.extract_problem_solutions: the pairs it found and
\* self.problem_to_solution after its grouping loop; an exception in the flow
\* extraction leaves the function before anything is stored
ExtractProblemSolutions(convs) ==
    IF \E c \in 1..Len(convs) : FlowMessages(convs[c], {"user", "assistant"}).raised
    THEN [raised |-> TRUE, pairs |-> <<>>, problem_to_solution |-> EmptyDict]
    ELSE LET pairs == Concat([c \in 1..Len(convs) |-> ConversationPairs(c, convs[c])])
             keys == { CategorizeProblem(pairs[k].problem) : k \in 1..Len(pairs) }
         IN  [raised |-> FALSE,
              pairs |-> pairs,
              problem_to_solution |->
                  [key \in keys |->
                      SelectSeq(pairs, LAMBDA pr : CategorizeProblem(pr.problem) = key)]]

----------------------------------------------------------------------------
(* DecisionTreeExtractor: extract_if_then_logic and                        *)
(* extract_decision_patterns.  An expression is a sequence of elements: a  *)
(* literal (one symbol out of alts, compared in lower case), an optional   *)
(* sub-expression seq (greedy), a run of at least min spaces (greedy,      *)
(* \s* and \s+), a capturing group (.+?) (lazy), and the end (?:\.|$).     *)
(* The texts hold no line break, so `.` matches every symbol.              *)

\* re.match of the elements k.. of an expression at position pos of text.
\* A lazy group takes the fewest symbols, a greedy run of spaces the most,
\* with which the elements after it match; an optional sub-expression is
\* tried first.  [ok, end, g]: whether it matches, the position after the
\* match, the captured groups as <<first, last>>
RECURSIVE Match(_, _, _, _)
Match(re, k, text, pos) ==
    LET Fail == [ok |-> FALSE, end |-> 0, g |-> <<>>]
        e == re[k]
        At(q) == IF q <= Len(text) THEN LowerSym(text[q]) ELSE "$"
        rest == SubSeq(re, k + 1, Len(re))
        run == CHOOSE r \in 0..Len(text) :
                   /\ \A q \in pos..(pos + r - 1) : At(q) = " "
                   /\ At(pos + r) # " "
        spaces == { c \in e.min..run : Match(re, k + 1, text, pos + c).ok }
        most == CHOOSE c \in spaces : \A d \in spaces : d <= c
        lengths == { c \in 1..(Len(text) + 1 - pos) : Match(re, k + 1, text, pos + c).ok }
        fewest == CHOOSE c \in lengths : \A d \in lengths : c <= d
    IN  IF k > Len(re) THEN [ok |-> TRUE, end |-> pos, g |-> <<>>]
        ELSE IF e.t = "lit"
        THEN IF At(pos) \in e.alts THEN Match(re, k + 1, text, pos + 1) ELSE Fail
        ELSE IF e.t = "opt"
        THEN LET with == Match(e.seq \o rest, 1, text, pos)
             IN  IF with.ok THEN with ELSE Match(re, k + 1, text, pos)
        ELSE IF e.t = "ws"
        THEN IF spaces = {} THEN Fail
             ELSE Match(re, k + 1, text, pos + most)
        ELSE IF e.t = "group"
        THEN IF lengths = {} THEN Fail
             ELSE LET r == Match(re, k + 1, text, pos + fewest)
                  IN  [r EXCEPT !.g = <<<<pos, pos + fewest - 1>>>> \o @]
        ELSE IF pos = Len(text) + 1 THEN [ok |-> TRUE, end |-> pos, g |-> <<>>]
        ELSE IF At(pos) = "." THEN [ok |-> TRUE, end |-> pos + 1, g |-> <<>>]
        ELSE Fail

\* re.finditer(pattern, text, re.IGNORECASE) from position pos on: the
\* captured groups of the successive matches, as texts
RECURSIVE FindIter(_, _, _)
FindIter(re, text, pos) ==
    IF pos > Len(text) THEN <<>>
    ELSE LET r == Match(re, 1, text, pos)
         IN  IF r.ok
             THEN <<[q \in 1..Len(r.g) |-> SubSeq(text, r.g[q][1], r.g[q][2])]>>
                  \o FindIter(re, text, IF r.end > pos THEN r.end ELSE pos + 1)
             ELSE FindIter(re, text, pos + 1)

\* if_then_patterns of extract_if_then_logic and decision_indicators of
\* extract_decision_patterns, in order
DecisionExpressions ==
    LET Lit(alts) == [t |-> "lit", alts |-> alts]
        Sp == Lit({" "})
        Ws(min) == [t |-> "ws", min |-> min]
        G == [t |-> "group"]
        End == [t |-> "end"]
        Then == [t |-> "opt", seq |-> <<Lit({"then"}), Ws(1)>>]
        Punct == [t |-> "opt", seq |-> <<Lit({",", "."})>>]
        Because == Lit({"because", "since"})
    IN  [if_then |->
           << <<Lit({"if"}), Sp, Lit({"you", "we", "i"}), Sp, G, Lit({","}), Sp, Then,
                G, End>>,
              <<Lit({"when"}), Sp, G, Lit({","}), Sp, G, End>>,
              <<Lit({"anytime", "whenever"}), Sp, G, Lit({","}), Sp, G, End>>,
              <<G, Sp, Lit({"?"}), Sp, G, Sp, Lit({":"}), Sp, G, End>> >>,
         condition_action |->
           << <<Lit({"if"}), Sp, G, Punct, Ws(0), Then, G, End>>,
              <<Lit({"when"}), Sp, G, Punct, Ws(0), Lit({"i", "we", "you"}), Ws(1),
                G, End>>,
              <<Lit({"every time", "whenever"}), Sp, G, Punct, Ws(0),
                Lit({"i", "we"}), Ws(1), G, End>> >>,
         problem_solution |->
           << <<Lit({"the problem is", "issue is"}), Sp, G, Punct, Ws(0), Lit({"so"}),
                Sp, G, End>>,
              <<G, Sp, Lit({"sucks", "is broken"}), Punct, Ws(0), Lit({"so"}), Sp, G,
                End>>,
              <<Lit({"need to", "have to"}), Sp, G, Sp, Because, Sp, G, End>> >>,
         choice_reasoning |->
           << <<Lit({"chose", "picked", "went with"}), Sp, G, Sp, Because, Sp, G, End>>,
              <<Lit({"instead of"}), Sp, G, Punct, Ws(0), Lit({"i", "we"}), Sp, G, End>>,
              <<G, Sp, Lit({"makes sense", "works better"}), Sp, Lit({"because"}), Sp,
                G, End>> >>]

\* the user texts the loops of a pass reach before an exception leaves the
\* pass, in order, each with its conversation's title
UserTexts(convs) ==
    LET Raised(c) == FlowMessages(convs[c], {"user"}).raised
        reached == { c \in 1..Len(convs) : \A q \in 1..(c - 1) : ~Raised(q) }
    IN  [raised |-> \E c \in 1..Len(convs) : Raised(c),
         out |-> Concat([c \in 1..Len(convs) |->
                    IF c \in reached
                    THEN LET msgs == FlowMessages(convs[c], {"user"}).out
                         IN  [k \in 1..Len(msgs) |->
                                 [text |-> msgs[k].content, title |-> convs[c].title]]
                    ELSE <<>>])]

\* the records a pass appends for one text: for each expression in order and
\* each match of it, `if match.lastindex >= 2` (the groups of these
\* expressions all take part in a match), Record(rule, groups)
MatchRecords(expressions, text, Record(_, _)) ==
    Concat([p \in 1..Len(expressions) |->
        LET found == SelectSeq(FindIter(expressions[p], text, 1),
                               LAMBDA groups : Len(groups) >= 2)
        IN  [q \in 1..Len(found) |-> Record(p, found[q])]])

\* DecisionTreeExtractor.extract_if_then_logic: self.if_then_patterns after
\* it; rule (the expression that matched) is not a field of the program's
\* record, else is None (set FALSE) or a text
ExtractIfThenLogic(convs) ==
    LET texts == UserTexts(Take(convs, 200))
    IN  [raised |-> texts.raised,
         if_then_patterns |->
            Concat([k \in 1..Len(texts.out) |->
                MatchRecords(DecisionExpressions.if_then, texts.out[k].text,
                    LAMBDA p, groups :
                        [if |-> Strip(groups[1]),
                         then |-> Strip(groups[2]),
                         else |-> IF Len(groups) >= 3
                                  THEN [set |-> TRUE, text |-> Strip(groups[3])]
                                  ELSE [set |-> FALSE, text |-> <<>>],
                         context |-> Take(texts.out[k].text, 200),
                         rule |-> p])])]

\* DecisionTreeExtractor.extract_decision_patterns: self.decision_patterns
\* after it
ExtractDecisionPatterns(convs) ==
    LET texts == UserTexts(convs)
        long == SelectSeq(texts.out, LAMBDA x : x.text # <<>> /\ Len(x.text) > 50)
        types == <<"condition_action", "problem_solution", "choice_reasoning">>
    IN  [raised |-> texts.raised,
         decision_patterns |->
            Concat([k \in 1..Len(long) |->
                Concat([ty \in 1..Len(types) |->
                    MatchRecords(DecisionExpressions[types[ty]], long[k].text,
                        LAMBDA p, groups :
                            [type |-> types[ty],
                             condition |-> Strip(groups[1]),
                             action |-> Strip(groups[2]),
                             full_context |-> Take(long[k].text, 500),
                             title |-> long[k].title])])])]

----------------------------------------------------------------------------
(* Period keys: analyze_cognitive_evolution (quarters) and                 *)
(* analyze_evolution (months).  A create_time is a number of seconds since *)
(* the epoch, 0 standing for a missing or zero one (both falsy); the local *)
(* time zone of the run is utcoffset seconds east of UTC.                  *)

\* datetime.fromtimestamp(create_time): the local calendar date (proleptic
\* Gregorian, days counted from 0000-03-01 in 400-year eras)
FromTimestamp(create_time, utcoffset) ==
    LET z == ((create_time + utcoffset) \div 86400) + 719468
        era == z \div 146097
        doe == z - era * 146097
        yoe == (doe - doe \div 1460 + doe \div 36524 - doe \div 146096) \div 365
        doy == doe - (365 * yoe + yoe \div 4 - yoe \div 100)
        mp == (5 * doy + 2) \div 153
        m == IF mp < 10 THEN mp + 3 ELSE mp - 9
    IN  [year |-> yoe + era * 400 + (IF m <= 2 THEN 1 ELSE 0),
         month |-> m,
         day |-> doy - (153 * mp + 2) \div 5 + 1]

\* str(n) of a natural number: its decimal digits
RECURSIVE Decimal(_)
Decimal(n) ==
    LET digit == <<"0", "1", "2", "3", "4", "5", "6", "7", "8", "9">>[(n % 10) + 1]
    IN  IF n < 10 THEN <<digit>> ELSE Decimal(n \div 10) \o <<digit>>

\* a quarter numbered date.month // 3 + 1
QuarterKeyByMonth(date) ==
    Decimal(date.year) \o <<"-", "Q">> \o Decimal(date.month \div 3 + 1)

\* f"{date.year}-Q{(date.month-1)//3 + 1}"
QuarterKey(date) ==
    Decimal(date.year) \o <<"-", "Q">> \o Decimal((date.month - 1) \div 3 + 1)

\* DeepConversationAnalyzer.analyze_cognitive_evolution: the quarter computed
\* for each conversation that has a create_time, in order
AnalyzeCognitiveEvolution(convs, utcoffset) ==
    LET dated == SelectSeq([c \in 1..Len(convs) |-> [conv |-> c, at |-> convs[c].create_time]],
                           LAMBDA x : x.at # 0)
    IN  [k \in 1..Len(dated) |->
            [conv |-> dated[k].conv,
             quarter |-> QuarterKey(FromTimestamp(dated[k].at, utcoffset))]]

\* date.strftime('%Y-%m')
MonthKey(date) ==
    Decimal(date.year) \o <<"-">>
    \o (IF date.month < 10 THEN <<"0">> ELSE <<>>) \o Decimal(date.month)

\* ConversationAnalyzer.analyze_evolution: the month_key each conversation
\* that has a create_time is filed under, date.strftime('%Y-%m'), in order
AnalyzeEvolution(convs, utcoffset) ==
    LET dated == SelectSeq([c \in 1..Len(convs) |-> [conv |-> c, at |-> convs[c].create_time]],
                           LAMBDA x : x.at # 0)
    IN  [k \in 1..Len(dated) |->
            [conv |-> dated[k].conv,
             month_key |-> MonthKey(FromTimestamp(dated[k].at, utcoffset))]]

----------------------------------------------------------------------------
(* SpecBuckets: one temporal pass over a corpus, a step per conversation   *)
(* (RealAnalyzer.analyze_evolution,                                        *)
(* DeepConversationAnalyzer.analyze_cognitive_evolution) or per message    *)
(* (FinalAnalyzer.track_evolution).  ret holds the pass's position i,      *)
(* whether an exception has left it, and its dicts keyed by period.  msgs  *)
(* (the <<conversation, node>> of the messages that reached a bucket) is   *)
(* not a field of the program's buckets.  The texts of the inputs are one  *)
(* word, so RealAnalyzer's key_phrases counts nothing.                     *)

\* the conversations of the corpus: created in July 2024, in August 2024 or
\* without create_time, with user messages that carry a create_time, lack
\* the key or have None, an assistant message and a malformed message
BucketConvChoices ==
    LET july == 19919 * 86400 + 43200
        august == 19950 * 86400 + 43200
        nodes == { GoodNode("user", <<StrPart(Xs(51))>>, july, 0),
                   GoodNode("user", <<StrPart(Xs(51) \o <<" ", "automate">>)>>, NoTime, 0),
                   GoodNode("user", <<StrPart(Xs(51))>>, NoneTime, 0),
                   GoodNode("assistant", <<StrPart(Xs(51))>>, july, 0),
                   Node("dict", "dict", "user", "null", "absent", <<>>, july, 0) }
    IN  { [title |-> "t", create_time |-> ct, mapping |-> m] :
            ct \in {0, july, august},
            m \in UNION { [1..n -> nodes] : n \in 0..MaxBucketNodes } }

InitBuckets ==
    /\ \E cs \in UNION { [1..n -> BucketConvChoices] : n \in 1..MaxBucketConvs } :
           arg = [kind |-> "buckets", convs |-> cs, utcoffset |-> 0]
    /\ fn \in {"RealAnalyzer.analyze_evolution",
               "DeepConversationAnalyzer.analyze_cognitive_evolution",
               "FinalAnalyzer.track_evolution"}
    /\ ret = [i |-> 0, raised |-> FALSE, buckets |-> EmptyDict, patterns |-> EmptyDict]
    /\ InitPartsIdle
    /\ InitDecodeIdle
    /\ InitChunksIdle
    /\ InitConceptsIdle
    /\ InitFinalIdle

\* RealAnalyzer.analyze_evolution, the body of its loop over the conversations
RealEvolutionStep ==
    /\ fn = "RealAnalyzer.analyze_evolution"
    /\ ~ret.raised
    /\ ret.i < Len(arg.convs)
    /\ LET ci == ret.i + 1
           conversation == arg.convs[ci]
           month_key == MonthKey(FromTimestamp(conversation.create_time, arg.utcoffset))
           messages == ExtractMikeMessages(conversation)
           old == IF month_key \in DOMAIN ret.buckets THEN ret.buckets[month_key]
                  ELSE [message_count |-> 0, total_length |-> 0, topics |-> <<>>,
                        key_phrases |-> EmptyDict, msgs |-> <<>>]
           new == [message_count |-> old.message_count + Len(messages.out),
                   total_length |-> old.total_length
                       + Len(Concat([k \in 1..Len(messages.out) |-> messages.out[k].content])),
                   topics |-> Append(old.topics, conversation.title),
                   key_phrases |-> old.key_phrases,
                   msgs |-> old.msgs \o [k \in 1..Len(messages.out) |->
                                            <<ci, messages.out[k].node_id>>]]
       IN  ret' = IF conversation.create_time = 0 THEN [ret EXCEPT !.i = ci]
                  ELSE IF messages.raised THEN [ret EXCEPT !.raised = TRUE]
                  ELSE [ret EXCEPT !.i = ci,
                                   !.buckets = [k \in DOMAIN @ \cup {month_key} |->
                                                   IF k = month_key THEN new ELSE @[k]]]
    /\ UNCHANGED <<arg, fn, partsVars, decodeVars, chunkVars, conceptVars, finalVars>>

\* DeepConversationAnalyzer.analyze_cognitive_evolution, the body of its loop
\* over the conversations: buckets is quarterly_complexity, patterns is
\* quarterly_patterns
DeepEvolutionStep ==
    /\ fn = "DeepConversationAnalyzer.analyze_cognitive_evolution"
    /\ ~ret.raised
    /\ ret.i < Len(arg.convs)
    /\ LET ci == ret.i + 1
           conversation == arg.convs[ci]
           quarter == QuarterKey(FromTimestamp(conversation.create_time, arg.utcoffset))
           messages == ExtractUserMessages(conversation)
           old == IF quarter \in DOMAIN ret.buckets THEN ret.buckets[quarter]
                  ELSE [complexity |-> <<>>, msgs |-> <<>>]
           new == [complexity |-> old.complexity
                       \o [k \in 1..Len(messages.out) |-> Len(messages.out[k].content)],
                   msgs |-> old.msgs \o [k \in 1..Len(messages.out) |->
                                            <<ci, messages.out[k].node_id>>]]
           found == Concat([k \in 1..Len(messages.out) |->
                       (IF ContainsPattern(messages.out[k].content, {"recursive"})
                        THEN <<"recursive_thinking">> ELSE <<>>)
                       \o (IF ContainsPattern(messages.out[k].content, {"upstream"})
                           THEN <<"upstream_logic">> ELSE <<>>)
                       \o (IF ContainsPattern(messages.out[k].content, {"modular"})
                           THEN <<"modular_design">> ELSE <<>>)
                       \o (IF ContainsPattern(messages.out[k].content, {"automat"})
                           THEN <<"automation_focus">> ELSE <<>>)])
           counts == CountTerms(IF quarter \in DOMAIN ret.patterns
                                THEN ret.patterns[quarter] ELSE EmptyDict, found)
       IN  ret' = IF conversation.create_time = 0 THEN [ret EXCEPT !.i = ci]
                  ELSE IF messages.raised THEN [ret EXCEPT !.raised = TRUE]
                  ELSE IF messages.out = <<>> THEN [ret EXCEPT !.i = ci]
                  ELSE [ret EXCEPT !.i = ci,
                                   !.buckets = [k \in DOMAIN @ \cup {quarter} |->
                                                   IF k = quarter THEN new ELSE @[k]],
                                   !.patterns =
                                       IF found = <<>> THEN @
                                       ELSE [k \in DOMAIN @ \cup {quarter} |->
                                                IF k = quarter THEN counts ELSE @[k]]]
    /\ UNCHANGED <<arg, fn, partsVars, decodeVars, chunkVars, conceptVars, finalVars>>

\* self.all_mike_messages after load_and_extract_all over the corpus, each
\* message with the conversation it came from; raised when the load raised,
\* which ends the run before any pass
LoadedMessages(convs) ==
    LET Raised(c) == LoadAndExtractAll(convs[c]).raised
    IN  [raised |-> \E c \in 1..Len(convs) : Raised(c),
         out |-> Concat([c \in 1..Len(convs) |->
                    IF \A q \in 1..(c - 1) : ~Raised(q)
                    THEN LET msgs == LoadAndExtractAll(convs[c]).out
                         IN  [k \in 1..Len(msgs) |->
                                 [content |-> msgs[k].content,
                                  timestamp |-> msgs[k].timestamp,
                                  length |-> msgs[k].length,
                                  conv |-> c, node_id |-> msgs[k].node_id]]
                    ELSE <<>>])]

\* FinalAnalyzer.track_evolution, the body of its loop over
\* self.all_mike_messages: buckets is monthly_data
TrackEvolutionStep ==
    /\ fn = "FinalAnalyzer.track_evolution"
    /\ ~LoadedMessages(arg.convs).raised
    /\ ret.i < Len(LoadedMessages(arg.convs).out)
    /\ LET msg == LoadedMessages(arg.convs).out[ret.i + 1]
           month == MonthKey(FromTimestamp(msg.timestamp, arg.utcoffset))
           old == IF month \in DOMAIN ret.buckets THEN ret.buckets[month]
                  ELSE [messages |-> <<>>, avg_length |-> 0, key_topics |-> EmptyDict,
                        msgs |-> <<>>]
           topics == (IF ContainsPattern(msg.content, {"automat"})
                      THEN <<"automation">> ELSE <<>>)
                     \o (IF ContainsPattern(msg.content, {"build"})
                         THEN <<"building">> ELSE <<>>)
                     \o (IF ContainsPattern(msg.content, {"learn"})
                         THEN <<"learning">> ELSE <<>>)
                     \o (IF ContainsPattern(msg.content, {"system", "clubos"})
                         THEN <<"systems">> ELSE <<>>)
           new == [messages |-> Append(old.messages, msg),
                   avg_length |-> 0,
                   key_topics |-> CountTerms(old.key_topics, topics),
                   msgs |-> Append(old.msgs, <<msg.conv, msg.node_id>>)]
       IN  ret' = IF msg.timestamp = NoneTime THEN [ret EXCEPT !.i = @ + 1]
                  ELSE [ret EXCEPT !.i = @ + 1,
                                   !.buckets = [k \in DOMAIN @ \cup {month} |->
                                                   IF k = month THEN new ELSE @[k]]]
    /\ UNCHANGED <<arg, fn, partsVars, decodeVars, chunkVars, conceptVars, finalVars>>

NextBuckets ==
    \/ RealEvolutionStep
    \/ DeepEvolutionStep
    \/ TrackEvolutionStep

SpecBuckets == InitBuckets /\ [][NextBuckets]_vars

\* the number of messages a bucket of the pass holds
BucketCount(bucket) ==
    IF fn = "RealAnalyzer.analyze_evolution" THEN bucket.message_count
    ELSE IF fn = "FinalAnalyzer.track_evolution" THEN Len(bucket.messages)
    ELSE Len(bucket.complexity)

\* C21: in the three temporal passes, every message that has reached a time
\* bucket has a timestamp of its own: its create_time key is present and
\* not None
C21_UndatedMessagesInNoBucket ==
    arg.kind = "buckets" =>
        \A key \in DOMAIN ret.buckets :
            \A k \in 1..Len(ret.buckets[key].msgs) :
                LET at == ret.buckets[key].msgs[k]
                IN  arg.convs[at[1]].mapping[at[2]].ctime \notin {NoTime, NoneTime}

\* C22: at every point of RealAnalyzer.analyze_evolution and
\* FinalAnalyzer.track_evolution a bucket exists only if a message of its
\* period has been processed: its message count is the number of messages
\* that reached it and is never 0
C22_BucketIffMessageProcessed ==
    (arg.kind = "buckets"
     /\ fn \in {"RealAnalyzer.analyze_evolution", "FinalAnalyzer.track_evolution"})
    => \A key \in DOMAIN ret.buckets :
           /\ BucketCount(ret.buckets[key]) = Len(ret.buckets[key].msgs)
           /\ BucketCount(ret.buckets[key]) > 0

----------------------------------------------------------------------------
(* SpecCalls: one pass, or one pure function, called once on one input *)

ThemeConvChoices ==
    { TextConv("plain", <<Xs(3)>>),
      TextConv("sys", << <<"system">> >>),
      TextConv("sys2", << <<"system", " ", "Upstream Logic">>,
                          <<"automate", " ", "system">> >>),
      TextConv("ism", << <<"might as well", " ", "who knows">> >>),
      [title |-> "assistant", create_time |-> SomeTime,
       mapping |-> <<GoodNode("assistant", <<StrPart(<<"system">>)>>, SomeTime, 0)>>],
      [title |-> "broken", create_time |-> SomeTime,
       mapping |-> <<Node("dict", "null", "absent", "dict", "list",
                          <<StrPart(<<"system">>)>>, SomeTime, 0)>>] }

\* the messages of the conversations handed to extract_problem_solutions
FlowMessageChoices ==
    { GoodNode("user", <<StrPart(<<"how do i", " ", "automate">>)>>, SomeTime, 0),
      GoodNode("user", <<StrPart(<<"Need To", " ", "x">>)>>, SomeTime, 0),
      GoodNode("user", <<StrPart(<<"so i", " ", "x">>)>>, SomeTime, 0),
      GoodNode("user", <<StrPart(<<"need to", " ", "code", " ", "Decided To">>)>>,
               SomeTime, 0),
      GoodNode("user", <<StrPart(<<"x">>)>>, SomeTime, 0),
      GoodNode("assistant", <<StrPart(<<"x">>)>>, SomeTime, 0),
      GoodNode("assistant", <<StrPart(<<"so i", " ", "x">>)>>, SomeTime, 0),
      GoodNode("system", <<StrPart(<<"so i">>)>>, SomeTime, 0),
      Node("dict", "dict", "user", "null", "absent", <<>>, SomeTime, 0) }

\* the user messages handed to extract_if_then_logic and
\* extract_decision_patterns: every short text over four symbols, and texts
\* that each expression of the two passes matches
DecisionTextChoices ==
    LET Long(t) == Pad \o <<" ">> \o t
        broken == <<"if", " ", "t", "h", "e", " ", "s", "y", "s", "t", "e", "m", " ",
                    "is broken", ",", " ", "I", " ", "r", "e", "b", "u", "i", "l", "d",
                    " ", "i", "t">>
    IN  UNION { [1..n -> {"when", " ", ",", "a"}] : n \in 1..MaxTextLen }
        \cup { broken,
               <<"If", " ", "you", " ", "a", ",", " ", "then", " ", "b", ".">>,
               <<"if", " ", "I", " ", "a", ",", " ", "b">>,
               <<"whenever", " ", "a", ",", " ", "b", ".">>,
               <<"When", " ", "a", ",", " ", " ", ".">>,
               <<"a", " ", "?", " ", "b", " ", ":", " ", "c">>,
               <<"a", " ", "?", " ", "b", " ", ":", " ", " ", ".">>,
               Long(broken),
               Long(<<"when", " ", " ", ",", " ", "i", " ", "a">>),
               Long(<<"if", " ", " ", ".", " ", "a">>),
               Long(<<"every time", " ", "a", ",", " ", "we", " ", "b">>),
               Long(<<"the problem is", " ", "a", ",", " ", "so", " ", "b">>),
               Long(<<"sucks", ",", " ", "so", " ", "a">>),
               Long(<<"need to", " ", "a", " ", "because", " ", "b", ".">>),
               Long(<<"went with", " ", "a", " ", "since", " ", "b">>),
               Long(<<"instead of", " ", "a", ",", " ", "we", " ", "b">>),
               Long(<<"makes sense", " ", "because", " ", "b">>) }

InitCalls ==
    /\ \/ \E cs \in UNION { [1..n -> ThemeConvChoices] : n \in 0..MaxThemeConvs } :
             arg = [kind |-> "themes", convs |-> cs]
       \/ \E m \in UNION { [1..n -> FlowMessageChoices] : n \in 0..MaxFlowMessages } :
             arg = [kind |-> "flow",
                    convs |-> <<[title |-> "t", create_time |-> SomeTime, mapping |-> m]>>]
       \/ \E parent \in [1..3 -> 0..3] :
             arg = [kind |-> "flow",
                    convs |-> <<[title |-> "t", create_time |-> SomeTime,
                                 mapping |->
                                   <<GoodNode("user", <<StrPart(<<"so i", " ", "x">>)>>,
                                              SomeTime, parent[1]),
                                     GoodNode("user", <<StrPart(<<"need to", " ", "x">>)>>,
                                              SomeTime, parent[2]),
                                     GoodNode("user", <<StrPart(<<"x">>)>>,
                                              SomeTime, parent[3])>>]>>]
       \/ \E t \in DecisionTextChoices :
          \E tail \in {<<>>, <<Node("dict", "dict", "user", "null", "absent", <<>>,
                                    SomeTime, 0)>>} :
             arg = [kind |-> "decision",
                    convs |-> <<[title |-> "t", create_time |-> SomeTime,
                                 mapping |-> <<GoodNode("user", <<StrPart(t)>>,
                                                        SomeTime, 0)>> \o tail]>>]
       \/ arg = [kind |-> "decision",
                 convs |-> [c \in 1..201 |->
                     [title |-> "t", create_time |-> SomeTime,
                      mapping |-> IF c <= 200 THEN <<>>
                                  ELSE <<GoodNode("user",
                                             <<StrPart(<<"when", " ", "a", ",", " ", "a">>)>>,
                                             SomeTime, 0)>>]]]
       \/ \E t \in UNION { [1..n -> {"automate", "code", "CODE", "program", "customer",
                                     "user", "database", "data", "system",
                                     "architect", "x", " "}] : n \in 0..MaxProblemLen } :
             arg = [kind |-> "problem", problem_text |-> t]
       \/ \E t \in UNION { [1..n -> {"x", "feedback loop"}] : n \in 1..MaxTextLen } :
          \E w \in 0..2 :
             arg = [kind |-> "context", text |-> t, pattern |-> "feedback_loop",
                    context_length |-> w]
       \/ \E d \in FirstDay..(FirstDay + MaxDays - 1) :
          \E sec \in {0, 43200, 86399} :
          \E off \in {-43200, -10800, 0, 50400} :
             arg = [kind |-> "evolution", utcoffset |-> off,
                    convs |-> <<[title |-> "t", create_time |-> d * 86400 + sec,
                                 mapping |-> <<>>]>>]
       \/ arg = [kind |-> "evolution", utcoffset |-> 0,
                 convs |-> <<[title |-> "t", create_time |-> 0, mapping |-> <<>>]>>]
    /\ fn = "none"
    /\ ret = <<>>
    /\ InitPartsIdle
    /\ InitDecodeIdle
    /\ InitChunksIdle
    /\ InitConceptsIdle
    /\ InitFinalIdle

CallPass(kind, name, res) ==
    /\ fn = "none"
    /\ arg.kind = kind
    /\ fn' = name
    /\ ret' = res
    /\ UNCHANGED <<arg, partsVars, decodeVars, chunkVars, conceptVars, finalVars>>

NextCalls ==
    \/ CallPass("themes", "identify_themes", IdentifyThemes(arg.convs))
    \/ CallPass("themes", "extract_thinking_patterns", ExtractThinkingPatterns(arg.convs))
    \/ CallPass("themes", "extract_unique_mike_isms", ExtractUniqueMikeIsms(arg.convs))
    \/ CallPass("flow", "extract_problem_solutions", ExtractProblemSolutions(arg.convs))
    \/ CallPass("flow", "extract_full_conversation", ExtractFullConversation(arg.convs[1]))
    \/ CallPass("decision", "extract_if_then_logic", ExtractIfThenLogic(arg.convs))
    \/ CallPass("decision", "extract_decision_patterns", ExtractDecisionPatterns(arg.convs))
    \/ CallPass("problem", "categorize_problem", CategorizeProblem(arg.problem_text))
    \/ CallPass("context", "extract_context",
                ExtractContext(arg.text, arg.pattern, arg.context_length))
    \/ CallPass("evolution", "analyze_cognitive_evolution",
                AnalyzeCognitiveEvolution(arg.convs, arg.utcoffset))
    \/ CallPass("evolution", "analyze_evolution",
                AnalyzeEvolution(arg.convs, arg.utcoffset))

SpecCalls == InitCalls /\ [][NextCalls]_vars

----------------------------------------------------------------------------
(* Claims about the passes called on their own (SpecCalls) *)

\* C11: after a classification pass the number of example records stored for
\* a rule equals the number of times the rule fired (the pass's own count).
C11_PassRetainsEveryOccurrence ==
    (fn \in {"identify_themes", "extract_thinking_patterns",
             "extract_unique_mike_isms"} /\ ~ret.raised) =>
        \A rule \in DOMAIN ret.tally :
            Len(ret.tally[rule].examples) = ret.tally[rule].count

----------------------------------------------------------------------------
(* SpecFinal: the passes of FinalAnalyzer, in any order, over the messages *)
(* load_and_extract_all extracted                                          *)

FinalConvChoices ==
    { TextConv("plain", << Xs(25) >>),
      TextConv("who", << Xs(21) \o <<"who knows">> >>),
      TextConv("build", << Xs(21) \o <<"automate", " ", "might as well">> >>),
      TextConv("short", << <<"who knows">> >>),
      TextConv("insight", << <<"realized", " ">> \o Xs(31) >>),
      TextConv("INSIGHT", << <<"realized", " ">> \o Rep("X", 31) >>),
      TextConv("single", << <<"turns out", " ">> \o Xs(15) \o <<" ">> \o Xs(15) >>),
      TextConv("double", << <<"turns out", " ">> \o Xs(15) \o <<" ", " ">> \o Xs(15) >>) }

InitFinal ==
    /\ \E cs \in UNION { [1..n -> FinalConvChoices] : n \in 0..MaxFinalConvs } :
          all_mike_messages = Concat([c \in 1..Len(cs) |-> LoadAndExtractAll(cs[c]).out])
    /\ thinking_patterns = EmptyDict
    /\ passes = <<>>
    /\ InitPartsIdle
    /\ InitDecodeIdle
    /\ InitChunksIdle
    /\ InitConceptsIdle
    /\ InitCallIdle

\* analyzer.extract_thinking_patterns()
RunExtractThinkingPatterns ==
    /\ Len(passes) < MaxPasses
    /\ thinking_patterns' =
          FinalExtractThinkingPatterns(thinking_patterns, all_mike_messages)
    /\ passes' = Append(passes, [name |-> "extract_thinking_patterns",
                                 out |-> thinking_patterns'])
    /\ UNCHANGED <<all_mike_messages, partsVars, decodeVars, chunkVars, conceptVars,
                   callVars>>

\* analyzer.find_unique_insights()
RunFindUniqueInsights ==
    /\ Len(passes) < MaxPasses
    /\ passes' = Append(passes, [name |-> "find_unique_insights",
                                 out |-> FindUniqueInsights(all_mike_messages)])
    /\ UNCHANGED <<all_mike_messages, thinking_patterns, partsVars, decodeVars,
                   chunkVars, conceptVars, callVars>>

NextFinal == RunExtractThinkingPatterns \/ RunFindUniqueInsights

SpecFinal == InitFinal /\ [][NextFinal]_vars

\* C12: a second run of extract_thinking_patterns over the same messages
\* leaves the same occurrences as the first run did.
C12_SecondRunSameOccurrences ==
    \A i, j \in 1..Len(passes) :
        (i < j /\ passes[i].name = "extract_thinking_patterns"
               /\ passes[j].name = "extract_thinking_patterns")
        => passes[j].out = passes[i].out

----------------------------------------------------------------------------
(* Claim about the consolidated output (SpecChunks, SpecFinal) *)

\* a text with every run of spaces collapsed to one space
RECURSIVE CollapseSpaces(_)
CollapseSpaces(s) ==
    IF Len(s) < 2 THEN s
    ELSE IF s[1] = " " /\ s[2] = " " THEN CollapseSpaces(Tail(s))
    ELSE <<s[1]>> \o CollapseSpaces(Tail(s))

\* the excerpt case-folded and whitespace-collapsed
Normalized(s) == CollapseSpaces(Strip(Lower(s)))

NoTwoEqualNormalized(list) ==
    \A k, l \in 1..Len(list) :
        Normalized(list[k]) = Normalized(list[l]) => k = l

\* C13: in the consolidated output no group lists two occurrences whose
\* excerpts are equal after case-folding and whitespace collapsing (the
\* sections consolidate_findings writes, the insights find_unique_insights
\* prints).
C13_ConsolidatedOutputDeduplicated ==
    /\ cpc = "done" =>
           /\ \A g \in 1..Len(report.strategies) :
                  NoTwoEqualNormalized(report.strategies[g].items)
           /\ \A a \in 1..Len(report.approaches) :
                  NoTwoEqualNormalized(report.approaches[a].items)
    /\ \A p \in 1..Len(passes) :
           passes[p].name = "find_unique_insights" =>
               NoTwoEqualNormalized([k \in 1..Len(passes[p].out) |->
                                        passes[p].out[k].insight])

----------------------------------------------------------------------------
(* Claims about extract_problem_solutions (SpecCalls) *)

ProblemSolutionsReturned == fn = "extract_problem_solutions" /\ ~ret.raised

\* the flow of the c-th conversation handed to the pass
FlowOf(c) == FlowMessages(arg.convs[c], {"user", "assistant"}).out

IsProblem(m) == m.role = "user" /\ ContainsPattern(m.content, ProblemIndicators)
IsSolution(m) == m.role = "user" /\ ContainsPattern(m.content, SolutionIndicators)

\* the positions of the next two user messages after the i-th message
NextTwoUsers(messages, i) ==
    LET later == SelectSeq([j \in 1..Len(messages) |-> j],
                           LAMBDA j : j > i /\ messages[j].role = "user")
    IN  { later[k] : k \in 1..Min(2, Len(later)) }

\* the records emitted for the i-th message of the c-th conversation
PairsFor(c, i) == { k \in 1..Len(ret.pairs) : ret.pairs[k].at[1] = c
                                              /\ ret.pairs[k].at[2] = i }

\* C15: for every user message that contains a problem indicator, if one of
\* the next two user messages of the conversation contains a solution
\* indicator, exactly one problem_solution record is emitted for it, whatever
\* number of assistant messages lie in between.
C15_OneRecordPerSolvedProblem ==
    ProblemSolutionsReturned =>
        \A c \in 1..Len(arg.convs) : \A i \in 1..Len(FlowOf(c)) :
            (IsProblem(FlowOf(c)[i])
             /\ \E j \in NextTwoUsers(FlowOf(c), i) : IsSolution(FlowOf(c)[j]))
            => Cardinality(PairsFor(c, i)) = 1

\* C16: a problem-indicator message for which none of the next two user
\* messages of the conversation contains a solution indicator produces no
\* problem_solution record.
C16_NoRecordWithoutSolution ==
    ProblemSolutionsReturned =>
        \A c \in 1..Len(arg.convs) : \A i \in 1..Len(FlowOf(c)) :
            (IsProblem(FlowOf(c)[i])
             /\ \A j \in NextTwoUsers(FlowOf(c), i) : ~IsSolution(FlowOf(c)[j]))
            => PairsFor(c, i) = {}

\* a problem message followed by two user messages without a solution
\* indicator and then by one with it: nothing is emitted for it, while a
\* record is emitted for another problem message of the conversation
C16_Witness ==
    /\ ProblemSolutionsReturned
    /\ ret.pairs # <<>>
    /\ \E i \in 1..Len(FlowOf(1)) :
           /\ IsProblem(FlowOf(1)[i])
           /\ Cardinality(NextTwoUsers(FlowOf(1), i)) = 2
           /\ \A j \in NextTwoUsers(FlowOf(1), i) : ~IsSolution(FlowOf(1)[j])
           /\ \E j \in 1..Len(FlowOf(1)) : j > i /\ IsSolution(FlowOf(1)[j])
           /\ PairsFor(1, i) = {}

\* C17: extract_if_then_logic on the single user message "if the system is
\* broken, I rebuild it" records a relation with left side "the system is
\* broken", right side "I rebuild it" and no else branch
C17_ScenarioRelationRecorded ==
    LET left == <<"t", "h", "e", " ", "s", "y", "s", "t", "e", "m", " ", "is broken">>
        right == <<"I", " ", "r", "e", "b", "u", "i", "l", "d", " ", "i", "t">>
        message == <<"if", " ">> \o left \o <<",", " ">> \o right
    IN  (/\ fn = "extract_if_then_logic"
         /\ Len(arg.convs[1].mapping) = 1
         /\ arg.convs[1].mapping[1].plist = <<StrPart(message)>>)
        => /\ ~ret.raised
           /\ \E k \in 1..Len(ret.if_then_patterns) :
                  /\ ret.if_then_patterns[k].if = left
                  /\ ret.if_then_patterns[k].then = right
                  /\ ~ret.if_then_patterns[k].else.set

\* C18: every relation extract_if_then_logic and extract_decision_patterns
\* store has a non-empty left side and a non-empty right side after trimming,
\* and an else branch only when the match has a third group (the ternary
\* expression) and that group is non-empty after trimming
C18_StoredRelationsNonEmpty ==
    /\ fn = "extract_if_then_logic" =>
           \A k \in 1..Len(ret.if_then_patterns) :
               LET r == ret.if_then_patterns[k]
               IN  /\ r.if # <<>>
                   /\ r.then # <<>>
                   /\ r.else.set => (r.rule = 4 /\ r.else.text # <<>>)
    /\ fn = "extract_decision_patterns" =>
           \A k \in 1..Len(ret.decision_patterns) :
               /\ ret.decision_patterns[k].condition # <<>>
               /\ ret.decision_patterns[k].action # <<>>

\* C19: categorize_problem returns, for every text, the label of the first
\* entry of its ordered keyword table one of whose keywords occurs in the
\* lowercased text, and "general" when no entry has one
C19_FirstMatchingEntryWins ==
    LET table == << [keywords |-> {"automat"}, label |-> "automation"],
                    [keywords |-> {"code", "program"}, label |-> "coding"],
                    [keywords |-> {"customer", "user"}, label |-> "customer_service"],
                    [keywords |-> {"database", "data"}, label |-> "data_management"],
                    [keywords |-> {"system", "architect"}, label |-> "system_design"] >>
        Occurs(k) == \E i \in 1..Len(arg.problem_text) :
                         KeywordsOf(LowerSym(arg.problem_text[i])) \cap table[k].keywords # {}
    IN  fn = "categorize_problem" =>
            /\ ret \in { table[k].label : k \in 1..Len(table) } \cup {"general"}
            /\ \A k \in 1..Len(table) :
                   (Occurs(k) /\ \A q \in 1..(k - 1) : ~Occurs(q)) => ret = table[k].label
            /\ (\A k \in 1..Len(table) : ~Occurs(k)) => ret = "general"

\* a text that names a database before a customer is a customer_service
\* problem: the customer entry comes first in the table
C19_Witness ==
    /\ fn = "categorize_problem"
    /\ Len(arg.problem_text) = 3
    /\ arg.problem_text[1] = "database"
    /\ arg.problem_text[3] = "customer"
    /\ ret = "customer_service"

\* the days from the epoch to the first day of month m of year y, by the
\* calendar's month lengths and leap-year rule
DaysBeforeMonth(y, m) ==
    LET Leap(yy) == (yy % 4 = 0 /\ yy % 100 # 0) \/ yy % 400 = 0
        MonthDays(mm) == IF mm = 2 THEN (IF Leap(y) THEN 29 ELSE 28)
                         ELSE IF mm \in {4, 6, 9, 11} THEN 30 ELSE 31
        RECURSIVE Sum(_)
        Sum(mm) == IF mm = 0 THEN 0 ELSE MonthDays(mm) + Sum(mm - 1)
    IN  365 * (y - 1970) + Cardinality({ yy \in 1970..(y - 1) : Leap(yy) }) + Sum(m - 1)

\* the local day create_time falls on lies in month m of year y
InMonth(y, m) ==
    LET local == (arg.convs[1].create_time + arg.utcoffset) \div 86400
    IN  /\ DaysBeforeMonth(y, m) <= local
        /\ local < (IF m = 12 THEN DaysBeforeMonth(y + 1, 1) ELSE DaysBeforeMonth(y, m + 1))

\* C20: the quarterly key of a timestamp in month m of year y is y, "-Q" and
\* n = floor((m-1)/3) + 1, which is 1 for months 1-3, 2 for 4-6, 3 for 7-9 and
\* 4 for 10-12; the monthly key is y, "-" and the two-digit month; a
\* conversation created on 2024-07-15 gets "2024-Q3" and "2024-07"
C20_PeriodKeys ==
    LET Year(y) == <<"2", "0", "2", <<"3", "4", "5">>[y - 2022]>>
        quarter == <<"1", "1", "1", "2", "2", "2", "3", "3", "3", "4", "4", "4">>
        month == << <<"0", "1">>, <<"0", "2">>, <<"0", "3">>, <<"0", "4">>, <<"0", "5">>,
                    <<"0", "6">>, <<"0", "7">>, <<"0", "8">>, <<"0", "9">>, <<"1", "0">>,
                    <<"1", "1">>, <<"1", "2">> >>
    IN  \A y \in 2023..2025, m \in 1..12 :
            (fn \in {"analyze_cognitive_evolution", "analyze_evolution"}
             /\ arg.convs[1].create_time # 0 /\ InMonth(y, m))
            => /\ Len(ret) = 1
               /\ quarter[m] = Decimal((m - 1) \div 3 + 1)[1]
               /\ fn = "analyze_cognitive_evolution" =>
                      ret[1].quarter = Year(y) \o <<"-", "Q", quarter[m]>>
               /\ fn = "analyze_evolution" =>
                      ret[1].month_key = Year(y) \o <<"-">> \o month[m]

\* a conversation created at noon UTC of 2024-07-15 (day 19919 of the epoch),
\* read in a zone three hours west of UTC, is filed under 2024-Q3
C20_Witness ==
    /\ fn = "analyze_cognitive_evolution"
    /\ arg.convs[1].create_time = 19919 * 86400 + 43200
    /\ arg.utcoffset = -10800
    /\ InMonth(2024, 7)
    /\ ret = <<[conv |-> 1, quarter |-> <<"2", "0", "2", "4", "-", "Q", "3">>]>>

\* C23: a pass takes every conversation of the corpus, also the 201st: the
\* relations extract_if_then_logic stores for a conversation handed to it
\* alone are among those it stores for the corpus
C23_EveryConversationProcessed ==
    (fn = "extract_if_then_logic" /\ ~ret.raised) =>
        \A c \in 1..Len(arg.convs) :
            LET alone == ExtractIfThenLogic(<<arg.convs[c]>>).if_then_patterns
            IN  \A q \in 1..Len(alone) :
                    \E k \in 1..Len(ret.if_then_patterns) : ret.if_then_patterns[k] = alone[q]

\* C24: for the first match, at offsets [s, e), in a text of length L and a
\* window w, extract_context returns the text from max(0, s-w) to
\* min(L, e+w), with the ellipsis in front only when the excerpt starts
\* after the text's start and at the end only when it stops before the
\* text's end
C24_EllipsisOnlyWhereClipped ==
    (fn = "extract_context" /\ Search(arg.pattern, arg.text)) =>
        LET e == FirstMatch(arg.pattern, arg.text)
            s == e - 1
            L == Len(arg.text)
            w == arg.context_length
            from == IF s - w > 0 THEN s - w ELSE 0
            to == IF e + w < L THEN e + w ELSE L
        IN  ret = (IF from > 0 THEN Ellipsis ELSE <<>>)
                  \o SubSeq(arg.text, from + 1, to)
                  \o (IF to < L THEN Ellipsis ELSE <<>>)

\* C25: consolidate_findings leaves global_patterns (its keys and every list
\* in it) and unique_phrases as they were before the call
C25_ConsolidateOnlyReads ==
    [][(cpc = "loop" /\ cpc' = "done")
       => (global_patterns' = global_patterns /\ unique_phrases' = unique_phrases)]_vars

\* C26: in the message sequence extract_problem_solutions pairs over, the
\* message of a node comes after the message of its parent, whatever the
\* order of the mapping's keys
C26_FlowParentBeforeChild ==
    fn = "extract_problem_solutions" =>
        \A c \in 1..Len(arg.convs) :
            \A i, j \in 1..Len(FlowOf(c)) :
                (i # j /\ arg.convs[c].mapping[FlowOf(c)[j].node_id].parent
                              = FlowOf(c)[i].node_id)
                => i < j

\* C27: extract_full_conversation returns on a mapping whose parent
\* references form a cycle (a node that names itself included), and the
\* cycle costs no message of a node outside it: every well-formed node that
\* hangs below a root and has a text still has its message returned
C27_CycleCostsOnlyItsNodes ==
    LET mapping == arg.convs[1].mapping
        OffTree(i) == mapping[i].parent # 0
                      /\ ~ReachableFromRoot(mapping, i, Len(mapping))
    IN  (fn = "extract_full_conversation" /\ \E i \in 1..Len(mapping) : OffTree(i))
        => /\ ~ret.raised
           /\ \A i \in 1..Len(mapping) :
                  (ReachableFromRoot(mapping, i, Len(mapping))
                   /\ ~Malformed(mapping[i])
                   /\ FullText(mapping[i]) # <<>>)
                  => \E k \in 1..Len(ret.out) : ret.out[k].node_id = i

\* the list global_patterns holds for a category, empty when it has none
PatternList(category) ==
    IF category \in DOMAIN global_patterns THEN global_patterns[category] ELSE <<>>

\* C28: whatever the chunk size, process_all_chunks ends with the
\* global_patterns lists (same items, same order) and the unique_phrases
\* counts that processing the whole corpus as a single chunk ends with
C28_ChunkSizeIndependent ==
    RunEnded =>
        LET r == FirstRaise(conversations, 1)
            done == SubSeq(conversations, 1, r - 1)
        IN  /\ \A category \in Categories :
                   PatternList(category) = IF r > Len(conversations)
                                           THEN ChunkPatterns(done)[category]
                                           ELSE <<>>
            /\ unique_phrases
                   = CountTerms(EmptyDict,
                                Concat([j \in 1..Len(done) |-> ConvTerms(done[j])]))

\* C29: after every process_chunk call, one ended by an exception included,
\* each conversation whose terms have been counted into unique_phrases has
\* its pattern items in global_patterns
C29_PhrasesAndPatternsOfSameConversations ==
    \A i \in processed :
        ConvTerms(conversations[i]) # <<>> =>
            /\ \A q \in 1..Len(PatternItems(conversations[i], CognitiveKeywords)) :
                   \E k \in 1..Len(PatternList("cognitive_strategies")) :
                       PatternList("cognitive_strategies")[k]
                           = PatternItems(conversations[i], CognitiveKeywords)[q]
            /\ \A q \in 1..Len(PatternItems(conversations[i], ProblemKeywords)) :
                   \E k \in 1..Len(PatternList("problem_solving")) :
                       PatternList("problem_solving")[k]
                           = PatternItems(conversations[i], ProblemKeywords)[q]

\* the places (category key, position) of self.problem_to_solution that hold
\* the record p
FiledAt(p) ==
    LET filed == ret.problem_to_solution
    IN  { kq \in UNION { { <<key, q>> : q \in 1..Len(filed[key]) } : key \in DOMAIN filed } :
              filed[kq[1]][kq[2]] = p }

\* C30: extract_problem_solutions emits at most one problem_solution record
\* per problem message; the problem and the solution of every record are user
\* messages of the same conversation, the solution one or two positions after
\* the problem in the conversation's sequence; every record is filed under
\* exactly one category key, the one categorize_problem returns for its
\* problem text, and nothing else is filed
C30_OneRecordOneKey ==
    ProblemSolutionsReturned =>
        /\ \A c \in 1..Len(arg.convs) : \A i \in 1..Len(FlowOf(c)) :
               Cardinality(PairsFor(c, i)) <= 1
        /\ \A k \in 1..Len(ret.pairs) :
               LET p == ret.pairs[k]
                   c == p.at[1]
                   i == p.at[2]
                   j == p.at[3]
               IN  /\ c \in 1..Len(arg.convs)
                   /\ i \in 1..Len(FlowOf(c)) /\ j \in 1..Len(FlowOf(c))
                   /\ FlowOf(c)[i].role = "user" /\ FlowOf(c)[j].role = "user"
                   /\ p.problem = Take(FlowOf(c)[i].content, 300)
                   /\ p.solution = Take(FlowOf(c)[j].content, 300)
                   /\ p.title = arg.convs[c].title
                   /\ i < j /\ j <= i + 2
                   /\ Cardinality(FiledAt(p)) = 1
                   /\ \A kq \in FiledAt(p) : kq[1] = CategorizeProblem(p.problem)
        /\ \A key \in DOMAIN ret.problem_to_solution :
               \A q \in 1..Len(ret.problem_to_solution[key]) :
                   \E k \in 1..Len(ret.pairs) : ret.pairs[k] = ret.problem_to_solution[key][q]

\* a problem message followed by two user messages that both hold a solution
\* indicator: one record, with the first of them, filed under one key
C30_Witness ==
    /\ ProblemSolutionsReturned
    /\ \E i \in 1..Len(FlowOf(1)) :
           /\ IsProblem(FlowOf(1)[i])
           /\ i + 2 <= Len(FlowOf(1))
           /\ IsSolution(FlowOf(1)[i + 1]) /\ IsSolution(FlowOf(1)[i + 2])
           /\ \E k \in PairsFor(1, i) :
                  /\ ret.pairs[k].at = <<1, i, i + 1>>
                  /\ Cardinality(FiledAt(ret.pairs[k])) = 1

====
